---- MODULE Spec2Model ----
(***************************************************************************)
(* Model of the two offline asset generators of the repository:            *)
(*   - src/generate-models.mjs : primitive geometry, mergeGeometries and   *)
(*     writeGLB (binary glTF container);                                    *)
(*   - src/unnamed/part_000    : encodePNG (stored-deflate PNG encoder).   *)
(*                                                                         *)
(* Representation                                                          *)
(*   - a byte buffer (Buffer, Uint8Array) is a sequence of 0..255; the     *)
(*     JavaScript index i is the TLA+ index i + 1;                         *)
(*   - an unsigned 32-bit word is the pair <<hi, lo>> of its 16-bit halves *)
(*     (value hi * 65536 + lo);                                            *)
(*   - a JavaScript number is the binary floating-point number           *)
(*     <<sign, m, e>> of value sign * m * 2^e (see the arithmetic of       *)
(*     JavaScript numbers); the elements of a Float32Array are such        *)
(*     numbers of 24 bits; an index, a count or a length is an integer;    *)
(*   - an optional property of a Placed Part (translate, rotate_y, color)  *)
(*     is a field that is or is not in the DOMAIN of the part's record.    *)
(***************************************************************************)
EXTENDS Integers, Sequences, FiniteSets, TLC

VARIABLES
    pc,       \* position of the running script: "parts", "merged", "written"; "size", "icon", "encoded";
              \* "shape", "geometry"
    shape,    \* generate-models: the arguments of a call of box, cyl or sph
    geo,      \* generate-models: the Geometry the call returns
    parts,    \* generate-models: the list of Placed Parts given to mergeGeometries
    merged,   \* generate-models: the Merged Mesh returned by mergeGeometries
    glb,      \* generate-models: the bytes writeGLB hands to writeFileSync
    size,     \* icons: createPNG's size argument
    width,    \* icons: encodePNG's width argument
    height,   \* icons: encodePNG's height argument
    pixels,   \* icons: encodePNG's RGBA pixel buffer
    png       \* icons: the bytes returned by encodePNG

vars == <<pc, shape, geo, parts, merged, glb, size, width, height, pixels, png>>

(***************************************************************************)
(* Bounds of the model.                                                    *)
(***************************************************************************)
\* icons are MaxSize x MaxSize pixels at most, except the one large icon
MaxSize == 4
\* createPNG paints icons of MaxIcon x MaxIcon pixels at most
MaxIcon == 10
\* side of the large icon: its raw stream spans more than one stored block
BigSize == 128
\* pixel ramps step by 0..MaxStride from one pixel to the next
MaxStride == 3
\* a part list holds MaxParts Placed Parts at most, except the large lists
MaxParts == 2
\* vertices of the large geometry: with 3 more they exceed the 16-bit index range
BigVerts == 65535
\* the arms 0..MaxArm of the chandelier are among the Placed Parts
MaxArm == 4
\* a box of whole dimensions measures MaxSide along an axis at most
MaxSide == 3
\* radii and heights of cylinders and spheres, and their segment counts
MaxRadius == 2
MaxHeight == 2
MaxSegs == 8
\* segments of the large cylinder: its 4 * BigSegs + 6 vertices exceed the
\* 16-bit index range
BigSegs == 16383
\* elements of a page of a Geometry held in the state
PageSize == 512

(***************************************************************************)
(* Bit arithmetic on bytes, 16-bit halves and 32-bit words.                *)
(***************************************************************************)
RECURSIVE BitXor(_, _, _)
BitXor(a, b, n) ==
    IF n = 0 THEN 0
    ELSE ((a + b) % 2) + 2 * BitXor(a \div 2, b \div 2, n - 1)

XorNibble == [a \in 0..15 |-> [b \in 0..15 |-> BitXor(a, b, 4)]]

Xor8(a, b) == XorNibble[a \div 16][b \div 16] * 16 + XorNibble[a % 16][b % 16]

Xor16(a, b) == Xor8(a \div 256, b \div 256) * 256 + Xor8(a % 256, b % 256)

\* u ^ v on 32-bit words
Xor32(u, v) == <<Xor16(u[1], v[1]), Xor16(u[2], v[2])>>

\* u >>> 1 and u >>> 8
Shr1(u) == <<u[1] \div 2, (u[1] % 2) * 32768 + u[2] \div 2>>

Shr8(u) == <<u[1] \div 256, (u[1] % 256) * 256 + u[2] \div 256>>

\* a non-negative number below 2^31 as a 32-bit word
U32(n) == <<n \div 65536, n % 65536>>

\* the four bytes of a word, most significant first: (w >> 24) & 0xff, ...
BytesBE(w) == <<w[1] \div 256, w[1] % 256, w[2] \div 256, w[2] % 256>>

\* the four bytes of a word, least significant first (writeUInt32LE)
BytesLE(w) == <<w[2] % 256, w[2] \div 256, w[1] % 256, w[1] \div 256>>

\* -1 as a 32-bit pattern
AllOnes == <<65535, 65535>>

\* 2 to the power k, k >= 0
PowersOf2 ==
    <<1, 2, 4, 8, 16, 32, 64, 128, 256, 512, 1024, 2048, 4096, 8192, 16384>>

RECURSIVE Pow2(_)
Pow2(k) == IF k < 15 THEN PowersOf2[k + 1] ELSE 32768 * Pow2(k - 15)

(***************************************************************************)
(* The arithmetic of JavaScript numbers.  A natural number of any size is  *)
(* the sequence of its digits of base 2^15, lowest first, with no zero     *)
(* digit at the top (<<>> is 0).  A binary floating-point number is        *)
(* <<sign, m, e>> of value sign * m * 2^e, sign 1 or -1 and m such a       *)
(* natural number: m has 53 bits in a double (a JavaScript number) and 24  *)
(* bits in a 32-bit float, and zero is <<sign, <<>>, 0>> (the sign of a    *)
(* zero is kept).  No number of the model is subnormal, infinite or NaN.   *)
(***************************************************************************)
Digit == 32768

RECURSIVE NatOf(_)
NatOf(n) == IF n = 0 THEN <<>> ELSE <<n % Digit>> \o NatOf(n \div Digit)

RECURSIVE NatTrim(_)
NatTrim(a) ==
    IF a # <<>> /\ a[Len(a)] = 0 THEN NatTrim(SubSeq(a, 1, Len(a) - 1)) ELSE a

\* a + b + c, c a carry
RECURSIVE NatAddC(_, _, _)
NatAddC(a, b, c) ==
    IF a = <<>> /\ b = <<>> THEN (IF c = 0 THEN <<>> ELSE <<c>>)
    ELSE LET x == (IF a = <<>> THEN 0 ELSE Head(a)) + (IF b = <<>> THEN 0 ELSE Head(b)) + c
         IN  <<x % Digit>> \o NatAddC(IF a = <<>> THEN a ELSE Tail(a),
                                      IF b = <<>> THEN b ELSE Tail(b), x \div Digit)

NatAdd(a, b) == NatAddC(a, b, 0)

\* a * d + c, d a digit and c a carry
RECURSIVE NatScale(_, _, _)
NatScale(a, d, c) ==
    IF a = <<>> THEN (IF c = 0 THEN <<>> ELSE <<c>>)
    ELSE LET x == Head(a) * d + c
         IN  <<x % Digit>> \o NatScale(Tail(a), d, x \div Digit)

\* the digits from place i up of a * d + acc + c, d a digit and c a carry
RECURSIVE NatScaleAdd(_, _, _, _, _)
NatScaleAdd(a, d, acc, c, i) ==
    IF i > Len(a)
    THEN (IF i > Len(acc) THEN (IF c = 0 THEN <<>> ELSE <<c>>)
          ELSE NatAddC(SubSeq(acc, i, Len(acc)), <<>>, c))
    ELSE LET x == a[i] * d + (IF i > Len(acc) THEN 0 ELSE acc[i]) + c
         IN  <<x % Digit>> \o NatScaleAdd(a, d, acc, x \div Digit, i + 1)

\* a * b, b from its digit k up: a times the digit k, plus the product with
\* the digits above it one place higher
RECURSIVE NatMulFrom(_, _, _)
NatMulFrom(a, b, k) ==
    IF k = Len(b) THEN NatScale(a, b[k], 0)
    ELSE NatScaleAdd(a, b[k], <<0>> \o NatMulFrom(a, b, k + 1), 0, 1)

NatMul(a, b) == IF a = <<>> \/ b = <<>> THEN <<>> ELSE NatTrim(NatMulFrom(a, b, 1))

\* the number of bits of a digit and of a natural number
RECURSIVE DigitBits(_)
DigitBits(d) ==
    IF d >= 256
    THEN IF d >= 4096
         THEN IF d >= 32768 THEN 15 + DigitBits(d \div 32768)
              ELSE IF d >= 16384 THEN 15 ELSE IF d >= 8192 THEN 14 ELSE 13
         ELSE IF d >= 1024 THEN (IF d >= 2048 THEN 12 ELSE 11)
              ELSE IF d >= 512 THEN 10 ELSE 9
    ELSE IF d >= 16
         THEN IF d >= 64 THEN (IF d >= 128 THEN 8 ELSE 7)
              ELSE IF d >= 32 THEN 6 ELSE 5
         ELSE IF d >= 4 THEN (IF d >= 8 THEN 4 ELSE 3)
              ELSE IF d >= 2 THEN 2 ELSE d

NatBits(a) == IF a = <<>> THEN 0 ELSE 15 * (Len(a) - 1) + DigitBits(a[Len(a)])

\* a * 2^k and the integer part of a / 2^k
NatShiftLeft(a, k) ==
    IF a = <<>> THEN <<>>
    ELSE [j \in 1..(k \div 15) |-> 0] \o NatScale(a, Pow2(k % 15), 0)

NatShiftRight(a, k) ==
    LET b == SubSeq(a, (k \div 15) + 1, Len(a))
        p == Pow2(k % 15)
    IN  NatTrim([j \in 1..Len(b) |->
                    (b[j] \div p) + (IF j < Len(b) THEN (b[j + 1] % p) * (Digit \div p) ELSE 0)])

\* bit k of a (bit 0 is the lowest), and whether all bits below bit k are 0
NatBit(a, k) ==
    IF (k \div 15) + 1 > Len(a) THEN 0 ELSE (a[(k \div 15) + 1] \div Pow2(k % 15)) % 2

NatLowZero(a, k) ==
    /\ \A j \in 1..(k \div 15) : j > Len(a) \/ a[j] = 0
    /\ (k \div 15) + 1 > Len(a) \/ a[(k \div 15) + 1] % Pow2(k % 15) = 0

\* sign * n * 2^e rounded to a significand of the given number of bits, ties to
\* even: the rounding of every double operation and of a Float32Array store
RoundCarry(sign, r, e, bits) ==
    IF NatBits(r) > bits THEN <<sign, NatShiftRight(r, 1), e + 1>> ELSE <<sign, r, e>>

RoundDrop(sign, n, e, bits, drop, q) ==
    RoundCarry(sign,
               IF NatBit(n, drop - 1) = 1 /\ (~NatLowZero(n, drop - 1) \/ NatBit(q, 0) = 1)
               THEN NatAdd(q, <<1>>) ELSE q,
               e + drop, bits)

RoundLen(sign, n, e, bits, len) ==
    IF len <= bits THEN <<sign, NatShiftLeft(n, bits - len), e - (bits - len)>>
    ELSE RoundDrop(sign, n, e, bits, len - bits, NatShiftRight(n, len - bits))

RoundBinary(sign, n, e, bits) ==
    IF n = <<>> THEN <<sign, <<>>, 0>> ELSE RoundLen(sign, n, e, bits, NatBits(n))

\* a binary number rounded to a double
Rounded(x) == RoundBinary(x[1], x[2], x[3], 53)

\* the double of an integer literal or argument
DoubleOf(k) == RoundBinary(IF k < 0 THEN -1 ELSE 1, NatOf(IF k < 0 THEN -k ELSE k), 0, 53)

\* x * y, -x and x / 2 on doubles
DoubleMul(x, y) == RoundBinary(x[1] * y[1], NatMul(x[2], y[2]), x[3] + y[3], 53)

DoubleNeg(x) == <<-x[1], x[2], x[3]>>

DoubleHalf(x) == IF x[2] = <<>> THEN x ELSE <<x[1], x[2], x[3] - 1>>

\* the element a Float32Array takes when the double x is stored in it
Float32Of(x) == RoundBinary(x[1], x[2], x[3], 24)

\* function f32(arr) on an array of doubles
Float32Array(arr) == [i \in 1..Len(arr) |-> Float32Of(arr[i])]

\* a < b on natural numbers
RECURSIVE NatLess(_, _)
NatLess(a, b) ==
    IF Len(a) # Len(b) THEN Len(a) < Len(b)
    ELSE IF a = <<>> THEN FALSE
    ELSE IF a[Len(a)] # b[Len(b)] THEN a[Len(a)] < b[Len(b)]
    ELSE NatLess(SubSeq(a, 1, Len(a) - 1), SubSeq(b, 1, Len(b) - 1))

\* a - b - c for a >= b + c, c a borrow
RECURSIVE NatSubB(_, _, _)
NatSubB(a, b, c) ==
    IF a = <<>> THEN <<>>
    ELSE LET x == Head(a) - (IF b = <<>> THEN 0 ELSE Head(b)) - c
         IN  <<(x + Digit) % Digit>>
                \o NatSubB(Tail(a), IF b = <<>> THEN b ELSE Tail(b), IF x < 0 THEN 1 ELSE 0)

NatSub(a, b) == NatTrim(NatSubB(a, b, 0))

\* exact product, sum and difference of binary numbers <<sign, m, e>> (m of
\* any size)
ExactMul(x, y) ==
    LET m == NatMul(x[2], y[2])
    IN  IF m = <<>> THEN <<1, <<>>, 0>> ELSE <<x[1] * y[1], m, x[3] + y[3]>>

ExactAligned(sx, a, sy, b, e) ==
    IF sx = sy THEN <<sx, NatAdd(a, b), e>>
    ELSE IF a = b THEN <<1, <<>>, 0>>
    ELSE IF NatLess(a, b) THEN <<sy, NatSub(b, a), e>>
    ELSE <<sx, NatSub(a, b), e>>

ExactAt(x, y, e) ==
    ExactAligned(x[1], NatShiftLeft(x[2], x[3] - e), y[1], NatShiftLeft(y[2], y[3] - e), e)

ExactAdd(x, y) ==
    IF x[2] = <<>> THEN y
    ELSE IF y[2] = <<>> THEN x
    ELSE ExactAt(x, y, IF x[3] < y[3] THEN x[3] ELSE y[3])

ExactSub(x, y) == ExactAdd(x, <<-y[1], y[2], y[3]>>)

\* -1, 0 or 1
SignOf(x) == IF x[2] = <<>> THEN 0 ELSE x[1]


\* the value of a natural number that fits a TLA+ integer
RECURSIVE NatValue(_)
NatValue(a) == IF a = <<>> THEN 0 ELSE Head(a) + Digit * NatValue(Tail(a))

\* x + y and x - y on doubles: the exact sum, rounded; a sum that is exactly
\* zero is +0 unless both terms are -0
DoubleAdd(x, y) ==
    IF x[1] = 0 \/ y[1] = 0 THEN <<0, <<>>, 0>>
    ELSE IF x[2] = <<>> /\ y[2] = <<>> THEN <<IF x[1] = -1 /\ y[1] = -1 THEN -1 ELSE 1, <<>>, 0>>
    ELSE Rounded(ExactAdd(x, y))

DoubleSub(x, y) == DoubleAdd(x, <<-y[1], y[2], y[3]>>)

\* the digit q with q * b <= r < (q + 1) * b, for r < Digit * b: the top 15
\* bits of b and the bits of r above the same place give a guess that is
\* never above q and less than 6 below it
QuotientFrom(r, b, low) ==
    CHOOSE q \in low..(low + 6) :
        /\ ~NatLess(r, NatTrim(NatScale(b, q, 0)))
        /\ NatLess(r, NatScale(b, q + 1, 0))

QuotientTop(r, b, shift) ==
    QuotientFrom(r, b, NatValue(NatShiftRight(r, shift))
                          \div (NatValue(NatShiftRight(b, shift)) + (IF shift = 0 THEN 0 ELSE 1)))

QuotientDigit(r, b) == QuotientTop(r, b, IF NatBits(b) > 15 THEN NatBits(b) - 15 ELSE 0)

\* long division by b, b not zero: <<quotient, remainder>> of the digits of
\* a from digit k up, one more digit of a taken at each step
DivDigit(r, q, b, d) == <<NatTrim(<<d>> \o q), NatSub(r, NatTrim(NatScale(b, d, 0)))>>

DivStep(st, digit, b) ==
    IF st[2] = <<>> /\ digit = 0 THEN <<IF st[1] = <<>> THEN <<>> ELSE <<0>> \o st[1], <<>>>>
    ELSE DivDigit(<<digit>> \o st[2], st[1], b, QuotientDigit(<<digit>> \o st[2], b))

RECURSIVE NatDivMod(_, _, _)
NatDivMod(a, b, k) ==
    IF k > Len(a) THEN <<<<>>, <<>>>> ELSE DivStep(NatDivMod(a, b, k + 1), a[k], b)

\* x / y on doubles, y not zero: the quotient of the significands, the one
\* of x widened by 57 bits, and one more bit that tells whether the division
\* left a remainder, rounded
DoubleDivOf(sign, qr, e) ==
    RoundBinary(sign, NatScale(qr[1], 2, IF qr[2] = <<>> THEN 0 ELSE 1), e, 53)

DoubleDivide(a, b) ==
    DoubleDivOf(a[1] * b[1], NatDivMod(NatShiftLeft(a[2], 57), b[2], 1), a[3] - b[3] - 58)

DoubleDiv(x, y) ==
    IF x[2] = <<>> THEN <<x[1] * y[1], <<>>, 0>> ELSE DoubleDivide(Rounded(x), Rounded(y))

\* the integer part of the square root of n by Heron's rule: r is not below
\* it, next is the mean of r and n / r
Heron(n, r) == NatShiftRight(NatAdd(r, NatDivMod(n, r, 1)[1]), 1)

RECURSIVE NatSqrt(_, _)
HeronStep(n, r, next) == IF NatLess(next, r) THEN NatSqrt(n, next) ELSE r

NatSqrt(n, r) == HeronStep(n, r, Heron(n, r))

\* the same from a first guess: 2^15 for n below 2^30, and else the root of
\* the top 29 or 30 bits of n, plus one, at its place
RECURSIVE NatRoot(_)
NatRootAbove(n, s) ==
    NatSqrt(n, NatShiftLeft(NatAdd(NatRoot(NatShiftRight(n, s)), <<1>>), s \div 2))

NatRoot(n) ==
    IF NatBits(n) <= 30 THEN NatSqrt(n, <<0, 1>>)
    ELSE NatRootAbove(n, 2 * ((NatBits(n) - 29) \div 2))

\* Math.sqrt(x), x >= 0: the root of the significand widened to 110 bits or
\* more, and one more bit that tells whether the root left a remainder, rounded
DoubleSqrtOf(n, root, e) ==
    RoundBinary(1, NatScale(root, 2, IF NatMul(root, root) = n THEN 0 ELSE 1), e, 53)

DoubleRoot(n, e) == DoubleSqrtOf(n, NatRoot(n), e)

DoubleSqrtAt(a, k) == DoubleRoot(NatShiftLeft(a[2], k), ((a[3] - k) \div 2) - 1)

DoubleSqrtEven(a) == DoubleSqrtAt(a, IF a[3] % 2 = 0 THEN 58 ELSE 59)

DoubleSqrt(x) == IF x[2] = <<>> THEN x ELSE DoubleSqrtEven(Rounded(x))

\* x < y and x <= y on doubles (-0 and +0 are equal)
DoubleLess(x, y) == SignOf(ExactSub(x, y)) < 0

DoubleLeq(x, y) == SignOf(ExactSub(x, y)) <= 0

\* Math.abs(x), Math.min(x, y), Math.max(x, y)
MathAbs(x) == <<1, x[2], x[3]>>

MathMin(x, y) ==
    IF DoubleLess(x, y) THEN x
    ELSE IF DoubleLess(y, x) THEN y
    ELSE IF x[1] = -1 THEN x ELSE y

MathMax(x, y) ==
    IF DoubleLess(y, x) THEN x
    ELSE IF DoubleLess(x, y) THEN y
    ELSE IF x[1] = 1 THEN x ELSE y

\* Math.round(x) as an integer: the nearest integer, the larger one of two
\* that are equally near
MathRound(x) ==
    IF x[2] = <<>> THEN 0
    ELSE IF x[3] >= 0 THEN x[1] * NatValue(NatShiftLeft(x[2], x[3]))
    ELSE LET whole == NatValue(NatShiftRight(x[2], -x[3]))
             half  == NatBit(x[2], (-x[3]) - 1) = 1
             more  == ~NatLowZero(x[2], (-x[3]) - 1)
         IN  IF x[1] = 1 THEN (IF half THEN whole + 1 ELSE whole)
             ELSE (IF half /\ more THEN -(whole + 1) ELSE -whole)

\* the double of the decimal literal n / d (d a power of ten)
Literal(n, d) == DoubleDiv(DoubleOf(n), DoubleOf(d))


(***************************************************************************)
(* Math.cos and Math.sin of a double x, |x| <= 2^20 * pi/2, as the engine  *)
(* computes them (fdlibm: a reduction of x by multiples of pi/2 to y0 + y1 *)
(* with |y0| <= pi/4, then the polynomial of the quadrant).                *)
(***************************************************************************)
\* the place of a double that the model does not compute: its sign is 0, and
\* so is the sign of every number computed from it
NotComputed == <<0, <<>>, 0>>

\* Math.PI
MathPI == <<1, <<11544, 10376, 2029, 201>>, -51>>

\* the upper 32 bits of the double |x|: 11 bits of exponent, 20 of significand
HighWord(x) ==
    IF x[2] = <<>> THEN 0
    ELSE (x[3] + 1074) * 1048576 + NatValue(NatShiftRight(x[2], 32))

\* the exponent field of x
ExponentField(x) == HighWord(x) \div 1048576

\* s * c for a sign s
Signed(s, c) == <<s * c[1], c[2], c[3]>>

\* c[k] + z * (c[k+1] + z * (... + z * c[Len(c)]))
RECURSIVE Horner(_, _, _)
Horner(z, c, k) ==
    IF k = Len(c) THEN c[k] ELSE DoubleAdd(c[k], DoubleMul(z, Horner(z, c, k + 1)))

\* S1 .. S6 of __kernel_sin
SinCoefficients ==
    << <<-1, <<21833, 10922, 21845, 170>>, -55>>,    \* -1.66666666666666324348e-01
       <<1, <<30886, 8737, 17476, 136>>, -59>>,      \*  8.33333333332248946124e-03
       <<-1, <<25045, 13186, 1664, 208>>, -65>>,     \* -1.98412698298579493134e-04
       <<1, <<32381, 12131, 30605, 184>>, -71>>,     \*  2.75573137070700676789e-06
       <<-1, <<7403, 5207, 6042, 215>>, -78>>,       \* -2.50507602534068634195e-08
       <<1, <<21884, 13727, 25833, 174>>, -85>> >>   \*  1.58969099521155010221e-10

\* C1 .. C6 of __kernel_cos
CosCoefficients ==
    << <<1, <<21836, 10922, 21845, 170>>, -57>>,     \*  4.16666666666666019037e-02
       <<-1, <<20855, 11650, 1456, 182>>, -62>>,     \* -1.38888888888741095749e-03
       <<1, <<5520, 13206, 1664, 208>>, -68>>,       \*  2.48015872894767294178e-05
       <<-1, <<21165, 312, 31038, 147>>, -74>>,      \* -2.75573143513906633035e-07
       <<1, <<12740, 31593, 14970, 143>>, -81>>,     \*  2.08757232129817482790e-09
       <<-1, <<14548, 32016, 27558, 199>>, -89>> >>  \* -1.13596475577881948265e-11

\* __kernel_sin(x, y, iy): sin(x + y) for |x| <= pi/4, y the tail of x (iy = 0
\* when y is 0); z = x * x, v = z * x, r = S2 + z * (S3 + ... + z * S6)
KernelSinWith(x, y, iy, z, v, r) ==
    IF iy = 0
    THEN DoubleAdd(x, DoubleMul(v, DoubleAdd(SinCoefficients[1], DoubleMul(z, r))))
    ELSE DoubleSub(x, DoubleSub(DoubleSub(DoubleMul(z, DoubleSub(DoubleHalf(y), DoubleMul(v, r))),
                                          y),
                                DoubleMul(v, SinCoefficients[1])))

KernelSinAt(x, y, iy, z) ==
    KernelSinWith(x, y, iy, z, DoubleMul(z, x), Horner(z, SinCoefficients, 2))

KernelSin(x, y, iy) ==
    IF HighWord(x) < 1044381696 THEN x                     \* |x| < 2^-27
    ELSE KernelSinAt(x, y, iy, DoubleMul(x, x))

\* __kernel_cos(x, y): cos(x + y) for |x| <= pi/4; w = z * r - x * y with
\* z = x * x and r = z * (C1 + z * (C2 + ... + z * C6)); qx is about x / 4
KernelCosFrom(z, w, qx) ==
    DoubleSub(DoubleSub(DoubleOf(1), qx), DoubleSub(DoubleSub(DoubleHalf(z), qx), w))

KernelCosWith(x, z, w) ==
    IF HighWord(x) < 1070805811                            \* |x| < 0.3
    THEN DoubleSub(DoubleOf(1), DoubleSub(DoubleHalf(z), w))
    ELSE KernelCosFrom(z, w,
            IF HighWord(x) > 1072234496 THEN <<1, <<0, 0, 0, 144>>, -54>>   \* 0.28125
            ELSE <<1, NatShiftLeft(NatShiftRight(x[2], 32), 32), x[3] - 2>>)

KernelCosAt(x, y, z) ==
    KernelCosWith(x, z, DoubleSub(DoubleMul(z, DoubleMul(z, Horner(z, CosCoefficients, 1))),
                                  DoubleMul(x, y)))

KernelCos(x, y) ==
    IF HighWord(x) < 1044381696 THEN DoubleOf(1)           \* |x| < 2^-27
    ELSE KernelCosAt(x, y, DoubleMul(x, x))

\* the parts of pi/2 of __ieee754_rem_pio2: pio2_1 holds the first 33 bits,
\* pio2_2 the next 33 and pio2_3 the third 33; pio2_kt is pi/2 less the
\* first k parts
invpio2 == <<1, <<18563, 23443, 31937, 162>>, -53>>        \* 6.36619772367581382433e-01

pio2_1 == <<1, <<0, 10368, 2029, 201>>, -52>>              \* 1.57079632673412561417e+00

pio2_1t == <<1, <<25393, 13508, 20868, 133>>, -86>>        \* 6.07710050650619224932e-11

pio2_2 == <<1, <<0, 13504, 20868, 133>>, -86>>             \* 6.07710050630396597660e-11

pio2_2t == <<1, <<28787, 23558, 26152, 152>>, -121>>       \* 2.02226624879595063154e-21

pio2_3 == <<1, <<0, 23552, 26152, 152>>, -121>>            \* 2.02226624871116645580e-21

pio2_3t == <<1, <<18881, 19008, 3688, 220>>, -156>>        \* 8.47842766036889956997e-32

\* the upper 32 bits of n * pi/2, n = 1 .. 32
npio2_hw ==
    <<1073291771, 1074340347, 1074977148, 1075388923, 1075800698, 1076025724,
      1076231611, 1076437499, 1076643386, 1076849274, 1076971356, 1077074300,
      1077177244, 1077280187, 1077383131, 1077486075, 1077589019, 1077691962,
      1077794906, 1077897850, 1077968460, 1078019932, 1078071404, 1078122876,
      1078174348, 1078225820, 1078277292, 1078328763, 1078380235, 1078431707,
      1078483179, 1078534651>>

\* the result of the reduction: <<n, y0, y1>>, y0 = r - w and y1 = (r - y0) - w,
\* with the sign s of x
ReducedTo(s, n, r, w, y0) ==
    <<s * n, Signed(s, y0), Signed(s, DoubleSub(DoubleSub(r, y0), w))>>

Reduced(s, n, rw) == ReducedTo(s, n, rw[1], rw[2], DoubleSub(rw[1], rw[2]))

\* one more round: t is the r of the round before, w = fn * pio2_k and the new
\* r = t - w, the new w = fn * pio2_kt - ((t - r) - w)
RoundWith(fn, t, tail, w, r) ==
    <<r, DoubleSub(DoubleMul(fn, tail), DoubleSub(DoubleSub(t, r), w))>>

RoundAt(fn, t, tail, w) == RoundWith(fn, t, tail, w, DoubleSub(t, w))

NextRound(fn, t, part, tail) == RoundAt(fn, t, tail, DoubleMul(fn, part))

\* |x| < 3 pi/4: n is 1 or -1; z = |x| - pio2_1
RemPio2NearOf(s, hx, z) ==
    IF hx # 1073291771 THEN Reduced(s, 1, <<z, pio2_1t>>)
    ELSE Reduced(s, 1, <<DoubleSub(z, pio2_2), pio2_2t>>)

RemPio2Near(x) == RemPio2NearOf(x[1], HighWord(x), DoubleSub(MathAbs(x), pio2_1))

\* |x| <= 2^20 * pi/2: a second round when y0 has lost more than 16 bits to
\* cancellation, a third when it has lost more than 49
RemPio2Third(s, j, n, fn, rw) ==
    IF j - ExponentField(DoubleSub(rw[1], rw[2])) > 49
    THEN Reduced(s, n, NextRound(fn, rw[1], pio2_3, pio2_3t))
    ELSE Reduced(s, n, rw)

RemPio2Second(s, hx, n, fn, rw) ==
    IF n < 32 /\ hx # npio2_hw[n] THEN Reduced(s, n, rw)
    ELSE IF (hx \div 1048576) - ExponentField(DoubleSub(rw[1], rw[2])) > 16
    THEN RemPio2Third(s, hx \div 1048576, n, fn, NextRound(fn, rw[1], pio2_2, pio2_2t))
    ELSE Reduced(s, n, rw)

RemPio2First(s, hx, t, n, fn) ==
    RemPio2Second(s, hx, n, fn, <<DoubleSub(t, DoubleMul(fn, pio2_1)), DoubleMul(fn, pio2_1t)>>)

\* the integer part of a double t >= 0
IntegerPart(t) ==
    IF t[2] = <<>> THEN 0
    ELSE IF t[3] >= 0 THEN NatValue(NatShiftLeft(t[2], t[3]))
    ELSE NatValue(NatShiftRight(t[2], -t[3]))

RemPio2Count(s, hx, t, n) == RemPio2First(s, hx, t, n, DoubleOf(n))

RemPio2Medium(x) ==
    RemPio2Count(x[1], HighWord(x), MathAbs(x),
                 IntegerPart(DoubleAdd(DoubleMul(MathAbs(x), invpio2), DoubleHalf(DoubleOf(1)))))

\* __ieee754_rem_pio2(x, y) for pi/4 < |x| <= 2^20 * pi/2
RemPio2(x) == IF HighWord(x) < 1073928572 THEN RemPio2Near(x) ELSE RemPio2Medium(x)

\* the reduction <<n, y0, y1, iy>> of a double x: nothing is taken off
\* |x| <= pi/4 (n = 0, y1 = 0, and iy = 0 tells __kernel_sin so)
ReducedAll(q) == <<q[1], q[2], q[3], 1>>

Reduction(x) ==
    IF HighWord(x) <= 1072243195 THEN <<0, x, DoubleOf(0), 0>>     \* |x| <= pi/4
    ELSE ReducedAll(RemPio2(x))

\* <<cos x, sin x>> by the quadrant n & 3, from kc = __kernel_cos(y0, y1) and
\* ks = __kernel_sin(y0, y1, iy)
Turned(n, kc, ks) ==
    CASE n % 4 = 0 -> <<kc, ks>>
      [] n % 4 = 1 -> <<DoubleNeg(ks), kc>>
      [] n % 4 = 2 -> <<DoubleNeg(kc), DoubleNeg(ks)>>
      [] n % 4 = 3 -> <<ks, DoubleNeg(kc)>>

CosSinAt(q) == Turned(q[1], KernelCos(q[2], q[3]), KernelSin(q[2], q[3], q[4]))

\* <<Math.cos(x), Math.sin(x)>> for a double x (53 bits of significand)
CosSinOf(x) ==
    IF HighWord(x) > 1094263291 THEN <<NotComputed, NotComputed>>      \* |x| > 2^20 * pi/2
    ELSE CosSinAt(Reduction(x))

CosSin(a) == IF a[1] = 0 THEN <<NotComputed, NotComputed>> ELSE CosSinOf(Rounded(a))

\* Math.cos(a) and Math.sin(a)
Cos(a) == CosSin(a)[1]

Sin(a) == CosSin(a)[2]

(***************************************************************************)
(* Typed arrays in the state.  A Float32Array of vertex attributes or a    *)
(* Uint16Array of indices is held in the state in run-length form: a       *)
(* sequence of runs <<count, block>>, block being `stride` consecutive     *)
(* elements (one vertex, one index) repeated `count` times.  Runs encodes, *)
(* Elems decodes; the functions of the program below work on the plain     *)
(* arrays.                                                                  *)
(***************************************************************************)
RECURSIVE RunsOf(_, _, _, _)
RunsOf(a, stride, lo, hi) ==
    IF lo > hi THEN <<>>
    ELSE IF lo = hi THEN << <<1, SubSeq(a, (lo - 1) * stride + 1, lo * stride)>> >>
    ELSE LET mid == (lo + hi) \div 2
             l   == RunsOf(a, stride, lo, mid)
             r   == RunsOf(a, stride, mid + 1, hi)
         IN  IF l[Len(l)][2] = r[1][2]
             THEN SubSeq(l, 1, Len(l) - 1)
                  \o << <<l[Len(l)][1] + r[1][1], r[1][2]>> >>
                  \o Tail(r)
             ELSE l \o r

Runs(a, stride) == RunsOf(a, stride, 1, Len(a) \div stride)

RECURSIVE Elems(_)
Elems(runs) ==
    IF runs = <<>> THEN <<>>
    ELSE LET block == runs[1][2]
             n     == Len(block)
         IN  [j \in 1..(runs[1][1] * n) |-> block[((j - 1) % n) + 1]]
             \o Elems(Tail(runs))

\* the number of elements of an array held as runs
RECURSIVE ElemCount(_)
ElemCount(runs) ==
    IF runs = <<>> THEN 0
    ELSE runs[1][1] * Len(runs[1][2]) + ElemCount(Tail(runs))

PackGeometry(g) ==
    [positions |-> Runs(g.positions, 3),
     normals   |-> Runs(g.normals, 3),
     indices   |-> Runs(g.indices, 1)]

UnpackGeometry(g) ==
    [positions |-> Elems(g.positions),
     normals   |-> Elems(g.normals),
     indices   |-> Elems(g.indices)]

PackParts(ps) == [k \in 1..Len(ps) |-> [ps[k] EXCEPT !.geo = PackGeometry(@)]]

UnpackParts(ps) == [k \in 1..Len(ps) |-> [ps[k] EXCEPT !.geo = UnpackGeometry(@)]]

PackMesh(m) ==
    [positions   |-> Runs(m.positions, 3),
     normals     |-> Runs(m.normals, 3),
     colors      |-> Runs(m.colors, 3),
     indices     |-> Runs(m.indices, 1),
     vertexCount |-> m.vertexCount,
     indexCount  |-> m.indexCount]

UnpackMesh(m) ==
    [positions   |-> Elems(m.positions),
     normals     |-> Elems(m.normals),
     colors      |-> Elems(m.colors),
     indices     |-> Elems(m.indices),
     vertexCount |-> m.vertexCount,
     indexCount  |-> m.indexCount]

(***************************************************************************)
(* generate-models: typed-array stores and primitive geometry.  A number   *)
(* argument of a function of the program (w, h, d, a radius) is a double.  *)
(***************************************************************************)
\* function f32(arr): new Float32Array(arr), arr an array of doubles
f32(arr) == Float32Array(arr)

\* function u16(arr): new Uint16Array(arr)
u16(arr) == [i \in 1..Len(arr) |-> arr[i] % 65536]

\* mutant of BoxIndices: the second and third corner of each triangle swapped
RECURSIVE BoxIndices_Flipped(_)
BoxIndices_Flipped(i) ==
    IF i >= 6 THEN <<>>
    ELSE LET o == i * 4
         IN  <<o, o + 2, o + 1, o, o + 3, o + 2>> \o BoxIndices_Flipped(i + 1)

\* the loop of boxGeometry: indices.push(o, o+1, o+2, o, o+2, o+3) for 6 faces
RECURSIVE BoxIndices(_)
BoxIndices(i) ==
    IF i >= 6 THEN <<>>
    ELSE LET o == i * 4
         IN  <<o, o + 1, o + 2, o, o + 2, o + 3>> \o BoxIndices(i + 1)

\* the array `normals` of boxGeometry
BoxNormals ==
    << 0, 0, 1,   0, 0, 1,   0, 0, 1,   0, 0, 1,
       0, 0, -1,  0, 0, -1,  0, 0, -1,  0, 0, -1,
       0, 1, 0,   0, 1, 0,   0, 1, 0,   0, 1, 0,
       0, -1, 0,  0, -1, 0,  0, -1, 0,  0, -1, 0,
       1, 0, 0,   1, 0, 0,   1, 0, 0,   1, 0, 0,
       -1, 0, 0,  -1, 0, 0,  -1, 0, 0,  -1, 0, 0 >>

\* the array `positions` of boxGeometry: the corners at the extents hw, hh, hd
\* and their negations nw, nh, nd
BoxPositions(hw, hh, hd, nw, nh, nd) ==
    << nw, nh, hd,   hw, nh, hd,   hw, hh, hd,   nw, hh, hd,
       nw, nh, nd,   nw, hh, nd,   hw, hh, nd,   hw, nh, nd,
       nw, hh, nd,   nw, hh, hd,   hw, hh, hd,   hw, hh, nd,
       nw, nh, nd,   hw, nh, nd,   hw, nh, hd,   nw, nh, hd,
       hw, nh, nd,   hw, hh, nd,   hw, hh, hd,   hw, nh, hd,
       nw, nh, nd,   nw, nh, hd,   nw, hh, hd,   nw, hh, nd >>

\* the Geometry boxGeometry returns for the extents hw, hh, hd
BoxOf(hw, hh, hd) ==
    [positions |-> f32(BoxPositions(hw, hh, hd, DoubleNeg(hw), DoubleNeg(hh), DoubleNeg(hd))),
     normals   |-> f32([j \in 1..72 |-> DoubleOf(BoxNormals[j])]),
     indices   |-> u16(BoxIndices(0))]

\* mutant of boxGeometry: the corners are at the full extents, not at the half
\* extents
boxGeometry_FullExtents(w, h, d) == BoxOf(w, h, d)

\* boxGeometry(w, h, d): hw = w/2, hh = h/2, hd = d/2
boxGeometry(w, h, d) == BoxOf(DoubleHalf(w), DoubleHalf(h), DoubleHalf(d))

(***************************************************************************)
(* generate-models: mergeGeometries.                                       *)
(***************************************************************************)
\* p.translate || [0,0,0],  p.rotate_y || 0,  p.color || [0.5, 0.3, 0.15]
\* (a rotate_y of 0 or -0 is replaced by 0 as well)
TranslateOf(p) ==
    IF "translate" \in DOMAIN p THEN p.translate
    ELSE <<DoubleOf(0), DoubleOf(0), DoubleOf(0)>>

RotateYOf(p) ==
    IF "rotate_y" \in DOMAIN p /\ p.rotate_y[2] # <<>> THEN p.rotate_y ELSE DoubleOf(0)

ColorOf(p) ==
    IF "color" \in DOMAIN p THEN p.color
    ELSE <<Literal(5, 10), Literal(3, 10), Literal(15, 100)>>

\* arr with vals stored from offset off on (TypedArray stores in a loop,
\* Buffer.copy); what does not fit in arr is dropped
WriteAt(arr, off, vals) ==
    LET room == Len(arr) - off
        n    == IF Len(vals) < room THEN Len(vals) ELSE room
    IN  IF n <= 0 THEN arr
        ELSE SubSeq(arr, 1, off) \o SubSeq(vals, 1, n) \o SubSeq(arr, off + n + 1, Len(arr))

\* rx = x*cosR - z*sinR and rz = x*sinR + z*cosR (of a position and of a normal)
RotatedX(x, z, cosR, sinR) == DoubleSub(DoubleMul(x, cosR), DoubleMul(z, sinR))

RotatedZ(x, z, cosR, sinR) == DoubleAdd(DoubleMul(x, sinR), DoubleMul(z, cosR))

\* the three numbers the body of the vertex loop stores in `positions` for the
\* vertex v = (x, y, z): rx+tx, y+ty, rz+tz
VertexPosition(v, t, cosR, sinR) ==
    <<Float32Of(DoubleAdd(RotatedX(v[1], v[3], cosR, sinR), t[1])),
      Float32Of(DoubleAdd(v[2], t[2])),
      Float32Of(DoubleAdd(RotatedZ(v[1], v[3], cosR, sinR), t[3]))>>

\* the three numbers it stores in `normals` for the normal n = (nx, ny, nz):
\* nx*cosR-nz*sinR, ny, nx*sinR+nz*cosR
VertexNormal(n, cosR, sinR) ==
    <<Float32Of(RotatedX(n[1], n[3], cosR, sinR)),
      Float32Of(n[2]),
      Float32Of(RotatedZ(n[1], n[3], cosR, sinR))>>

\* the vertex loop on the positions and on the normals of a part, the arrays
\* in runs of equal consecutive vertices: the body is evaluated once for a run
PositionRuns(runs, t, cosR, sinR) ==
    [r \in 1..Len(runs) |-> <<runs[r][1], VertexPosition(runs[r][2], t, cosR, sinR)>>]

NormalRuns(runs, cosR, sinR) ==
    [r \in 1..Len(runs) |-> <<runs[r][1], VertexNormal(runs[r][2], cosR, sinR)>>]

\* the values the vertex loop stores for part p: rotated, translated positions
PartPositions(p, cosR, sinR) ==
    Elems(PositionRuns(Runs(p.geo.positions, 3), TranslateOf(p), cosR, sinR))

\* mutant of PartNormals: the translation is added to the normals as well
PartNormals_Translated(p, cosR, sinR) ==
    Elems(PositionRuns(Runs(p.geo.normals, 3), TranslateOf(p), cosR, sinR))

\* rotated normals
PartNormals(p, cosR, sinR) == Elems(NormalRuns(Runs(p.geo.normals, 3), cosR, sinR))

\* the part's flat colour on every vertex
PartColorsOf(col, nv) == [j \in 1..(nv * 3) |-> col[((j - 1) % 3) + 1]]

PartColors(p) == PartColorsOf(Float32Array(ColorOf(p)), Len(p.geo.positions) \div 3)

\* mutant of PartIndices: the offset is vOff, which counts floats, not vertices
PartIndices_FloatOffset(p, vCount) ==
    [i \in 1..Len(p.geo.indices) |-> (p.geo.indices[i] + 3 * vCount) % 65536]

\* indices[iOff + i] = g.indices[i] + vCount, stored in a Uint16Array
PartIndices(p, vCount) ==
    [i \in 1..Len(p.geo.indices) |-> (p.geo.indices[i] + vCount) % 65536]

\* the first loop: totalVerts and totalIdx
RECURSIVE TotalVerts(_)
TotalVerts(ps) ==
    IF ps = <<>> THEN 0 ELSE Len(ps[1].geo.positions) \div 3 + TotalVerts(Tail(ps))

RECURSIVE TotalIdx(_)
TotalIdx(ps) ==
    IF ps = <<>> THEN 0 ELSE Len(ps[1].geo.indices) + TotalIdx(Tail(ps))

\* the body of the second loop for part p of nv vertices; st holds the four
\* arrays and vOff, iOff, vCount
MergeStep(st, p, nv, cosR, sinR) ==
    [positions |-> WriteAt(st.positions, st.vOff, PartPositions(p, cosR, sinR)),
     normals   |-> WriteAt(st.normals, st.vOff, PartNormals(p, cosR, sinR)),
     colors    |-> WriteAt(st.colors, st.vOff, PartColors(p)),
     indices   |-> WriteAt(st.indices, st.iOff, PartIndices(p, st.vCount)),
     vOff      |-> st.vOff + nv * 3,
     iOff      |-> st.iOff + Len(p.geo.indices),
     vCount    |-> st.vCount + nv]

\* const cosR = Math.cos(ry), sinR = Math.sin(ry)
MergePart(st, p, cs) == MergeStep(st, p, Len(p.geo.positions) \div 3, cs[1], cs[2])

\* the second loop, from part k on
RECURSIVE MergeLoop(_, _, _)
MergeLoop(ps, k, st) ==
    IF k > Len(ps) THEN st
    ELSE MergeLoop(ps, k + 1, MergePart(st, ps[k], CosSin(RotateYOf(ps[k]))))

\* new Float32Array(n): n elements of +0
Float32Zeros(n) == [j \in 1..n |-> <<1, <<>>, 0>>]

\* the four arrays as they are allocated, and vOff = 0, iOff = 0, vCount = 0
MergeStart(totalVerts, totalIdx) ==
    [positions |-> Float32Zeros(totalVerts * 3),
     normals   |-> Float32Zeros(totalVerts * 3),
     colors    |-> Float32Zeros(totalVerts * 3),
     indices   |-> [j \in 1..totalIdx |-> 0],
     vOff |-> 0, iOff |-> 0, vCount |-> 0]

\* the object mergeGeometries returns
MergedOf(st, totalVerts, totalIdx) ==
    [positions   |-> st.positions,
     normals     |-> st.normals,
     colors      |-> st.colors,
     indices     |-> st.indices,
     vertexCount |-> totalVerts,
     indexCount  |-> totalIdx]

MergeTotals(ps, totalVerts, totalIdx) ==
    MergedOf(MergeLoop(ps, 1, MergeStart(totalVerts, totalIdx)), totalVerts, totalIdx)

mergeGeometries(ps) == MergeTotals(ps, TotalVerts(ps), TotalIdx(ps))

(***************************************************************************)
(* generate-models: the bytes of typed arrays (`.buffer`).                 *)
(***************************************************************************)
\* the four little-endian bytes of the element v of a Float32Array; frac is
\* its significand less the leading bit and E its exponent field
F32BytesOf(sign, frac, E) ==
    << frac % 256,
       (frac \div 256) % 256,
       (E % 2) * 128 + frac \div 65536,
       sign * 128 + E \div 2 >>

F32Bytes(v) ==
    IF v[2] = <<>> THEN <<0, 0, 0, IF v[1] = -1 THEN 128 ELSE 0>>
    ELSE F32BytesOf(IF v[1] = -1 THEN 1 ELSE 0, NatValue(v[2]) - 8388608, v[3] + 23 + 127)

\* Buffer.from(indices.buffer): two little-endian bytes per index
Uint16Buffer(arr) ==
    [k \in 1..(2 * Len(arr)) |->
        LET v == arr[(k + 1) \div 2]
        IN  IF k % 2 = 1 THEN v % 256 ELSE v \div 256]

\* Buffer.from(positions.buffer), and of normals and colors: four bytes per
\* element
Float32Buffer(arr) ==
    [k \in 1..(4 * Len(arr)) |-> F32Bytes(arr[(k + 3) \div 4])[((k - 1) % 4) + 1]]

(***************************************************************************)
(* generate-models: writeGLB.                                              *)
(***************************************************************************)
\* mutant of pad4: an aligned length is padded too
pad4_AlwaysAdds(n) == n + (4 - (n % 4))

\* const pad4 = n => (n % 4 === 0) ? n : n + (4 - n % 4)
pad4(n) == IF n % 4 = 0 THEN n ELSE n + (4 - (n % 4))

\* a bound of the box: inf is 1 for Infinity, -1 for -Infinity, 0 for the number v
Finite(v) == [inf |-> 0, v |-> v]

PlusInfinity == [inf |-> 1, v |-> <<1, <<>>, 0>>]

MinusInfinity == [inf |-> -1, v |-> <<1, <<>>, 0>>]

\* x < m and x > m for a number x and a bound m
Below(x, m) == m.inf = 1 \/ (m.inf = 0 /\ DoubleLess(x, m.v))

Above(x, m) == m.inf = -1 \/ (m.inf = 0 /\ DoubleLess(m.v, x))

\* the bounding-box loop from vertex i on; box = [min |-> <<..>>, max |-> <<..>>]
RECURSIVE BoundsLoop(_, _, _, _)
BoundsLoop(positions, vertexCount, i, box) ==
    IF i >= vertexCount THEN box
    ELSE LET Lo(c) == IF Below(positions[i * 3 + c], box.min[c])
                      THEN Finite(positions[i * 3 + c]) ELSE box.min[c]
             Hi(c) == IF Above(positions[i * 3 + c], box.max[c])
                      THEN Finite(positions[i * 3 + c]) ELSE box.max[c]
             next  == [min |-> <<Lo(1), Lo(2), Lo(3)>>, max |-> <<Hi(1), Hi(2), Hi(3)>>]
         IN  IF next.min[1].inf <= 1 THEN BoundsLoop(positions, vertexCount, i + 1, next)
             ELSE next

\* mutant of Bounds: the six bounds start at 0 instead of +-Infinity
Bounds_FromZero(m) ==
    BoundsLoop(m.positions, m.vertexCount, 0,
               [min |-> <<Finite(DoubleOf(0)), Finite(DoubleOf(0)), Finite(DoubleOf(0))>>,
                max |-> <<Finite(DoubleOf(0)), Finite(DoubleOf(0)), Finite(DoubleOf(0))>>])

Bounds(m) ==
    BoundsLoop(m.positions, m.vertexCount, 0,
               [min |-> <<PlusInfinity, PlusInfinity, PlusInfinity>>,
                max |-> <<MinusInfinity, MinusInfinity, MinusInfinity>>])

\* the object `json` of writeGLB: the members whose values are computed
GlbJson(m) ==
    LET idxBytes  == 2 * Len(m.indices)
        posBytes  == 4 * Len(m.positions)
        normBytes == 4 * Len(m.normals)
        colBytes  == 4 * Len(m.colors)
        idxPad    == pad4(idxBytes)
        binLen    == idxPad + posBytes + normBytes + colBytes
        box       == Bounds(m)
    IN  [accessors |->
            << [bufferView |-> 0, componentType |-> 5123, count |-> m.indexCount,
                type |-> "SCALAR"],
               [bufferView |-> 1, componentType |-> 5126, count |-> m.vertexCount,
                type |-> "VEC3", min |-> box.min, max |-> box.max],
               [bufferView |-> 2, componentType |-> 5126, count |-> m.vertexCount,
                type |-> "VEC3"],
               [bufferView |-> 3, componentType |-> 5126, count |-> m.vertexCount,
                type |-> "VEC3"] >>,
         bufferViews |->
            << [buffer |-> 0, byteOffset |-> 0, byteLength |-> idxBytes,
                target |-> 34963],
               [buffer |-> 0, byteOffset |-> idxPad, byteLength |-> posBytes,
                target |-> 34962],
               [buffer |-> 0, byteOffset |-> idxPad + posBytes, byteLength |-> normBytes,
                target |-> 34962],
               [buffer |-> 0, byteOffset |-> idxPad + posBytes + normBytes,
                byteLength |-> colBytes, target |-> 34962] >>,
         buffers |-> << [byteLength |-> binLen] >>]

(***************************************************************************)
(* JSON.stringify(json) as character codes.                                *)
(***************************************************************************)
(***************************************************************************)
(* Number::toString of a double, as JSON.stringify writes a number: its    *)
(* digits are those of the shortest decimal that rounds to the double      *)
(* (the nearest to the double of those of that length).                    *)
(***************************************************************************)
\* 10^k as a natural number
NatSquare(a) == NatMul(a, a)

RECURSIVE NatPow10(_)
NatPow10(k) ==
    IF k = 0 THEN <<1>>
    ELSE IF k % 2 = 0 THEN NatSquare(NatPow10(k \div 2))
    ELSE NatScale(NatPow10(k - 1), 10, 0)

\* the double x = m * 2^e as <<r, s, mp, mm>>: x = r / s, and the numbers
\* half way to the doubles next to x are (r + mp) / s above and (r - mm) / s
\* below; b = 1 when m is 2^52 (the double below x is at half the distance)
ShortestStart(m, e, b) ==
    <<NatShiftLeft(m, (IF e > 0 THEN e ELSE 0) + 1 + b),
      NatShiftLeft(<<1>>, (IF e < 0 THEN -e ELSE 0) + 1 + b),
      NatShiftLeft(<<1>>, (IF e > 0 THEN e ELSE 0) + b),
      NatShiftLeft(<<1>>, IF e > 0 THEN e ELSE 0)>>

\* the same for x / 10^k
ScaledBy(q, k) ==
    IF k >= 0 THEN <<q[1], NatMul(q[2], NatPow10(k)), q[3], q[4]>>
    ELSE <<NatMul(q[1], NatPow10(-k)), q[2], NatMul(q[3], NatPow10(-k)),
           NatMul(q[4], NatPow10(-k))>>

\* every decimal that rounds to x is below 1 (a number half way rounds to x
\* when m is even)
Fits(q, even) ==
    IF even THEN NatLess(NatAdd(q[1], q[3]), q[2])
    ELSE ~NatLess(q[2], NatAdd(q[1], q[3]))

\* the least n for which x / 10^n fits, from a guess k
RECURSIVE PointDown(_, _, _)
PointDown(q, even, k) ==
    IF Fits(ScaledBy(q, k - 1), even) THEN PointDown(q, even, k - 1) ELSE k

RECURSIVE PointUp(_, _, _)
PointUp(q, even, k) ==
    IF Fits(ScaledBy(q, k), even) THEN k ELSE PointUp(q, even, k + 1)

PointFrom(q, even, k) ==
    IF Fits(ScaledBy(q, k), even) THEN PointDown(q, even, k) ELSE PointUp(q, even, k + 1)

\* the digit d with d * s <= r10 < (d + 1) * s
NextDigit(r10, s) ==
    CHOOSE d \in 0..9 :
        /\ ~NatLess(r10, NatTrim(NatScale(s, d, 0)))
        /\ NatLess(r10, NatScale(s, d + 1, 0))

\* the digits of r / s after the decimal point, up to the first place where
\* the digits so far (low), or they with the last digit raised by one (high),
\* round to the double; of the two the nearer to the double is taken, and the
\* one of even last digit when they are as near
RECURSIVE Digits(_, _, _, _, _)
DigitsEnd(d, r, s, mp, mm, even, low, high) ==
    IF ~low /\ ~high THEN <<d>> \o Digits(r, s, mp, mm, even)
    ELSE IF low /\ ~high THEN <<d>>
    ELSE IF high /\ ~low THEN <<d + 1>>
    ELSE IF NatLess(NatScale(r, 2, 0), s) THEN <<d>>
    ELSE IF NatLess(s, NatScale(r, 2, 0)) THEN <<d + 1>>
    ELSE <<d + (d % 2)>>

DigitsRem(d, r, s, mp, mm, even) ==
    DigitsEnd(d, r, s, mp, mm, even,
              IF even THEN ~NatLess(mm, r) ELSE NatLess(r, mm),
              IF even THEN ~NatLess(NatAdd(r, mp), s) ELSE NatLess(s, NatAdd(r, mp)))

DigitsOf(d, r10, s, mp, mm, even) ==
    DigitsRem(d, NatSub(r10, NatTrim(NatScale(s, d, 0))), s, mp, mm, even)

Digits(r, s, mp, mm, even) ==
    DigitsOf(NextDigit(NatScale(r, 10, 0), s), NatScale(r, 10, 0), s,
             NatScale(mp, 10, 0), NatScale(mm, 10, 0), even)

RECURSIVE DecimalText(_)
DecimalText(n) ==
    IF n < 10 THEN <<48 + n>> ELSE DecimalText(n \div 10) \o <<48 + (n % 10)>>

\* the characters of a sequence of digits, n characters 0, and e+x or e-x
DigitText(ds) == [i \in 1..Len(ds) |-> 48 + ds[i]]

Zeros(n) == [i \in 1..n |-> 48]

ExponentText(x) == <<101, IF x < 0 THEN 45 ELSE 43>> \o DecimalText(IF x < 0 THEN -x ELSE x)

\* the text of the number 0.d1 d2 ... dk * 10^n
Formatted(ds, k, n) ==
    IF k <= n /\ n <= 21 THEN DigitText(ds) \o Zeros(n - k)
    ELSE IF 0 < n /\ n <= 21
    THEN DigitText(SubSeq(ds, 1, n)) \o <<46>> \o DigitText(SubSeq(ds, n + 1, k))
    ELSE IF -6 < n /\ n <= 0 THEN <<48, 46>> \o Zeros(-n) \o DigitText(ds)
    ELSE IF k = 1 THEN DigitText(ds) \o ExponentText(n - 1)
    ELSE DigitText(<<ds[1]>>) \o <<46>> \o DigitText(Tail(ds)) \o ExponentText(n - 1)

FormattedAt(ds, n) == Formatted(ds, Len(ds), n)

ShortestOf(q, even, n) == FormattedAt(Digits(q[1], q[2], q[3], q[4], even), n)

ShortestAt(q, even, n) == ShortestOf(ScaledBy(q, n), even, n)

ShortestFrom(q, even, k) == ShortestAt(q, even, PointFrom(q, even, k))

\* the text of a double x > 0
PositiveText(x) ==
    ShortestFrom(ShortestStart(x[2], x[3], IF x[2] = <<0, 0, 0, 128>> THEN 1 ELSE 0),
                 NatBit(x[2], 0) = 0,
                 ((x[3] + 53) * 30103) \div 100000)

\* the text of a double: 0 and -0 are "0"
NumberToString(x) ==
    IF x[2] = <<>> THEN <<48>>
    ELSE (IF x[1] = -1 THEN <<45>> ELSE <<>>) \o PositiveText(MathAbs(Rounded(x)))

\* an integer
NumberText(n) == IF n < 0 THEN <<45>> \o DecimalText(-n) ELSE DecimalText(n)

\* a bound of the box: Infinity and -Infinity are serialized as null
BoundText(b) == IF b.inf = 0 THEN NumberToString(b.v) ELSE <<110, 117, 108, 108>>

\* the members of an array of bounds from member k on, separated by commas
RECURSIVE BoundsText(_, _)
BoundsText(t, k) ==
    BoundText(t[k]) \o (IF k < Len(t) THEN <<44>> \o BoundsText(t, k + 1) ELSE <<>>)

\* the three members of min or max
TripleText(t) == BoundsText(t, 1)

\* {"asset":{"version":"2.0","generator":"ManorGen"},"scene":0,"scenes":[{"nodes":[0]}],"nodes":[{"mesh":0}],"meshes":[{"primitives":[{"attributes":{"POSITION":1,"NORMAL":2,"COLOR_0":3},"indices":0,"mode":4}]}],"accessors":[
TextHead ==
    <<123, 34, 97, 115, 115, 101, 116, 34, 58, 123, 34, 118, 101, 114, 115,
      105, 111, 110, 34, 58, 34, 50, 46, 48, 34, 44, 34, 103, 101, 110, 101,
      114, 97, 116, 111, 114, 34, 58, 34, 77, 97, 110, 111, 114, 71, 101,
      110, 34, 125, 44, 34, 115, 99, 101, 110, 101, 34, 58, 48, 44, 34, 115,
      99, 101, 110, 101, 115, 34, 58, 91, 123, 34, 110, 111, 100, 101, 115,
      34, 58, 91, 48, 93, 125, 93, 44, 34, 110, 111, 100, 101, 115, 34, 58,
      91, 123, 34, 109, 101, 115, 104, 34, 58, 48, 125, 93, 44, 34, 109, 101,
      115, 104, 101, 115, 34, 58, 91, 123, 34, 112, 114, 105, 109, 105, 116,
      105, 118, 101, 115, 34, 58, 91, 123, 34, 97, 116, 116, 114, 105, 98,
      117, 116, 101, 115, 34, 58, 123, 34, 80, 79, 83, 73, 84, 73, 79, 78,
      34, 58, 49, 44, 34, 78, 79, 82, 77, 65, 76, 34, 58, 50, 44, 34, 67, 79,
      76, 79, 82, 95, 48, 34, 58, 51, 125, 44, 34, 105, 110, 100, 105, 99,
      101, 115, 34, 58, 48, 44, 34, 109, 111, 100, 101, 34, 58, 52, 125, 93,
      125, 93, 44, 34, 97, 99, 99, 101, 115, 115, 111, 114, 115, 34, 58, 91>>

\* {"bufferView":
TextBufferView ==
    <<123, 34, 98, 117, 102, 102, 101, 114, 86, 105, 101, 119, 34, 58>>

\* ,"componentType":
TextComponentType ==
    <<44, 34, 99, 111, 109, 112, 111, 110, 101, 110, 116, 84, 121, 112, 101,
      34, 58>>

\* ,"count":
TextCount ==
    <<44, 34, 99, 111, 117, 110, 116, 34, 58>>

\* ,"type":"
TextType ==
    <<44, 34, 116, 121, 112, 101, 34, 58, 34>>

\* ","min":[
TextMin ==
    <<34, 44, 34, 109, 105, 110, 34, 58, 91>>

\* ],"max":[
TextMax ==
    <<93, 44, 34, 109, 97, 120, 34, 58, 91>>

\* ],"bufferViews":[
TextBufferViews ==
    <<93, 44, 34, 98, 117, 102, 102, 101, 114, 86, 105, 101, 119, 115, 34,
      58, 91>>

\* {"buffer":
TextBuffer ==
    <<123, 34, 98, 117, 102, 102, 101, 114, 34, 58>>

\* ,"byteOffset":
TextByteOffset ==
    <<44, 34, 98, 121, 116, 101, 79, 102, 102, 115, 101, 116, 34, 58>>

\* ,"byteLength":
TextByteLength ==
    <<44, 34, 98, 121, 116, 101, 76, 101, 110, 103, 116, 104, 34, 58>>

\* ,"target":
TextTarget ==
    <<44, 34, 116, 97, 114, 103, 101, 116, 34, 58>>

\* ],"buffers":[{"byteLength":
TextBuffers ==
    <<93, 44, 34, 98, 117, 102, 102, 101, 114, 115, 34, 58, 91, 123, 34, 98,
      121, 116, 101, 76, 101, 110, 103, 116, 104, 34, 58>>

\* }]}
TextTail ==
    <<125, 93, 125>>

\* SCALAR
TextSCALAR ==
    <<83, 67, 65, 76, 65, 82>>

\* VEC3
TextVEC3 ==
    <<86, 69, 67, 51>>

AccessorText(a) ==
    TextBufferView \o NumberText(a.bufferView)
    \o TextComponentType \o NumberText(a.componentType)
    \o TextCount \o NumberText(a.count)
    \o TextType \o (IF a.type = "SCALAR" THEN TextSCALAR ELSE TextVEC3)
    \o (IF "min" \in DOMAIN a
        THEN TextMin \o TripleText(a.min) \o TextMax \o TripleText(a.max) \o <<93, 125>>
        ELSE <<34, 125>>)

BufferViewText(v) ==
    TextBuffer \o NumberText(v.buffer)
    \o TextByteOffset \o NumberText(v.byteOffset)
    \o TextByteLength \o NumberText(v.byteLength)
    \o TextTarget \o NumberText(v.target)
    \o <<125>>

\* the members of the arrays accessors and bufferViews from member k on
RECURSIVE AccessorsText(_, _)
AccessorsText(as, k) ==
    AccessorText(as[k]) \o (IF k < Len(as) THEN <<44>> \o AccessorsText(as, k + 1) ELSE <<>>)

RECURSIVE BufferViewsText(_, _)
BufferViewsText(vs, k) ==
    BufferViewText(vs[k]) \o (IF k < Len(vs) THEN <<44>> \o BufferViewsText(vs, k + 1) ELSE <<>>)

JsonStringify(j) ==
    TextHead
    \o AccessorsText(j.accessors, 1)
    \o TextBufferViews
    \o BufferViewsText(j.bufferViews, 1)
    \o TextBuffers \o NumberText(j.buffers[1].byteLength)
    \o TextTail

(***************************************************************************)
(* writeGLB: the chunks and the file.                                      *)
(***************************************************************************)
\* mutant of JsonPadded: the text is not padded
JsonPadded_Unpadded(text) == text

\* jsonPadded: the text in a buffer of pad4(length) bytes filled with 0x20
JsonPadded(text) ==
    WriteAt([k \in 1..pad4(Len(text)) |-> 32], 0, text)

\* binBuf: binLen zero bytes, then the four copies at their offsets
BinBuffer(m) ==
    LET idx       == Uint16Buffer(m.indices)
        pos       == Float32Buffer(m.positions)
        norm      == Float32Buffer(m.normals)
        col       == Float32Buffer(m.colors)
        idxPad    == pad4(Len(idx))
        posBytes  == Len(pos)
        normBytes == Len(norm)
        binLen    == idxPad + posBytes + normBytes + Len(col)
        b0        == [k \in 1..binLen |-> 0]
        b1        == WriteAt(b0, 0, idx)
        b2        == WriteAt(b1, idxPad, pos)
        b3        == WriteAt(b2, idxPad + posBytes, norm)
    IN  WriteAt(b3, idxPad + posBytes + normBytes, col)

\* the buffer `glb` handed to writeFileSync
GlbOf(jsonPadded, jsonPadLen, binBuf, binLen, totalLen) ==
    LET glb0 == [k \in 1..totalLen |-> 0]
        g1 == WriteAt(glb0, 0, BytesLE(<<18004, 27751>>))       \* 0x46546C67
        g2 == WriteAt(g1, 4, BytesLE(U32(2)))
        g3 == WriteAt(g2, 8, BytesLE(U32(totalLen)))
        g4 == WriteAt(g3, 12, BytesLE(U32(jsonPadLen)))
        g5 == WriteAt(g4, 16, BytesLE(<<20047, 21322>>))        \* 0x4E4F534A
        g6 == WriteAt(g5, 20, jsonPadded)
        g7 == WriteAt(g6, 20 + jsonPadLen, BytesLE(U32(binLen)))
        g8 == WriteAt(g7, 24 + jsonPadLen, BytesLE(<<78, 18754>>)) \* 0x004E4942
    IN  WriteAt(g8, 28 + jsonPadLen, binBuf)

GlbWith(jsonPadded, binBuf) ==
    GlbOf(jsonPadded, Len(jsonPadded), binBuf, Len(binBuf),
          12 + 8 + Len(jsonPadded) + 8 + Len(binBuf))

writeGLB(m) == GlbWith(JsonPadded(JsonStringify(GlbJson(m))), BinBuffer(m))

(***************************************************************************)
(* generate-models: the inputs of the model.                               *)
(***************************************************************************)
\* an array of integer literals as doubles
DoublesOf(ns) == [i \in 1..Len(ns) |-> DoubleOf(ns[i])]

\* a one-triangle Geometry; its 3 indices take 6 bytes, 2 short of a boundary
Triangle ==
    [positions |-> f32(DoublesOf(<<0, 0, 0,  2, 0, 0,  0, 3, 0>>)),
     normals   |-> f32(DoublesOf(<<0, 0, 1,  0, 0, 1,  0, 0, 1>>)),
     indices   |-> u16(<<0, 1, 2>>)]

\* a Geometry of n coincident vertices and one triangle over the first two
\* and the last of them, in run-length form
PackedBigGeometry(n) ==
    [positions |-> << <<n, <<Float32Of(DoubleOf(0)), Float32Of(DoubleOf(0)),
                            Float32Of(DoubleOf(0))>>>> >>,
     normals   |-> << <<n, <<Float32Of(DoubleOf(0)), Float32Of(DoubleOf(1)),
                            Float32Of(DoubleOf(0))>>>> >>,
     indices   |-> << <<1, <<0>>>>, <<1, <<1>>>>, <<1, <<n - 1>>>> >>]

\* const hex = (h) => [(h>>16&0xff)/255, (h>>8&0xff)/255, (h&0xff)/255]
hex(h) ==
    <<DoubleDiv(DoubleOf((h \div 65536) % 256), DoubleOf(255)),
      DoubleDiv(DoubleOf((h \div 256) % 256), DoubleOf(255)),
      DoubleDiv(DoubleOf(h % 256), DoubleOf(255))>>

\* C.darkWood = hex(0x3a2210) and C.metal = hex(0x888888)
DarkWood == hex(3809808)

Metal == hex(8947848)

\* the triangle, box(2, 2, 2) and the table top box(2.0, 0.08, 1.2)
Geometries ==
    {Triangle,
     boxGeometry(DoubleOf(2), DoubleOf(2), DoubleOf(2)),
     boxGeometry(DoubleOf(2), Literal(8, 100), Literal(12, 10))}

\* the Placed Parts of the model: each property of a part given or left out;
\* the translations are [-0.85, 0.36, -0.5] and [-5, 4, 0]
PartsOf(g) ==
    { [geo |-> g],
      [geo |-> g, translate |-> <<Literal(-85, 100), Literal(36, 100), Literal(-5, 10)>>],
      [geo |-> g, translate |-> <<DoubleOf(-5), DoubleOf(4), DoubleOf(0)>>,
       rotate_y |-> DoubleOf(0), color |-> DarkWood] }

\* the arms of the chandelier: a = (i/5)*Math.PI*2, ax = Math.cos(a)*0.25,
\* az = Math.sin(a)*0.25 and the part
\* { geo: box(0.25, 0.02, 0.02), color: C.metal, translate: [ax/2, 0.06, az/2], rotate_y: a }
ArmAngle(i) == DoubleMul(DoubleMul(DoubleDiv(DoubleOf(i), DoubleOf(5)), MathPI), DoubleOf(2))

ArmAt(a, cs) ==
    [geo       |-> boxGeometry(Literal(25, 100), Literal(2, 100), Literal(2, 100)),
     color     |-> Metal,
     translate |-> <<DoubleHalf(DoubleMul(cs[1], Literal(25, 100))),
                     Literal(6, 100),
                     DoubleHalf(DoubleMul(cs[2], Literal(25, 100)))>>,
     rotate_y  |-> a]

Arm(i) == ArmAt(ArmAngle(i), CosSin(ArmAngle(i)))

PartChoices == UNION {PartsOf(g) : g \in Geometries} \cup {Arm(i) : i \in 0..MaxArm}

RECURSIVE ListsOf(_, _)
ListsOf(S, n) ==
    IF n = 0 THEN {<<>>}
    ELSE LET shorter == ListsOf(S, n - 1)
         IN  shorter \cup {Append(l, x) : l \in {s \in shorter : Len(s) = n - 1}, x \in S}

\* the part lists of furniture size
PartLists == ListsOf(PartChoices, MaxParts)

\* part lists with more vertices than a 16-bit index can address
PackedBigPartLists ==
    { <<[geo |-> PackedBigGeometry(BigVerts)],
        [geo |-> PackGeometry(Triangle),
         translate |-> <<Literal(-85, 100), Literal(36, 100), Literal(-5, 10)>>]>>,
      <<[geo |-> PackGeometry(Triangle)], [geo |-> PackedBigGeometry(BigVerts)]>> }

(***************************************************************************)
(* generate-models: the script as a state machine.                         *)
(*   pc = "parts"   : a part list is built                                 *)
(*   pc = "merged"  : mergeGeometries has returned                         *)
(*   pc = "written" : writeGLB has built the file                          *)
(***************************************************************************)
InitWith(packed) ==
    /\ pc = "parts"
    /\ shape = <<>> /\ geo = <<>>
    /\ parts \in packed
    /\ merged = <<>>
    /\ glb = <<>>
    /\ size = 0
    /\ width = 0
    /\ height = 0
    /\ pixels = <<>>
    /\ png = <<>>

Init == InitWith({PackParts(l) : l \in PartLists})

MergeGeometries ==
    /\ pc = "parts"
    /\ \E ps \in {UnpackParts(parts)} :
          \E m \in {mergeGeometries(ps)} : merged' = PackMesh(m)
    /\ pc' = "merged"
    /\ UNCHANGED <<shape, geo, parts, glb, size, width, height, pixels, png>>

WriteGLB ==
    /\ pc = "merged"
    /\ \E m \in {UnpackMesh(merged)} : glb' = writeGLB(m)
    /\ pc' = "written"
    /\ UNCHANGED <<shape, geo, parts, merged, size, width, height, pixels, png>>

Next == MergeGeometries \/ WriteGLB

Spec == Init /\ [][Next]_vars

\* the merger alone, also on the large part lists
InitMerge == InitWith({PackParts(l) : l \in PartLists} \cup PackedBigPartLists)

NextMerge == MergeGeometries

SpecMerge == InitMerge /\ [][NextMerge]_vars

(***************************************************************************)
(* A reader of the Scene Container: the fields of the file and the         *)
(* numbers its metadata text declares, taken from the bytes of glb.        *)
(***************************************************************************)
\* readUInt32LE at byte offset off
U32At(buf, off) ==
    buf[off + 1] + 256 * buf[off + 2] + 65536 * buf[off + 3] + 16777216 * buf[off + 4]

\* the metadata chunk's payload and the binary chunk's payload
JsonChunk(buf) == SubSeq(buf, 21, 20 + U32At(buf, 12))

BinChunk(buf) == SubSeq(buf, 29 + U32At(buf, 12), Len(buf))

\* key stands in text at position pos
KeyAt(text, pos, key) ==
    /\ pos + Len(key) - 1 <= Len(text)
    /\ SubSeq(text, pos, pos + Len(key) - 1) = key

\* the position just after the n-th occurrence of key in text
AfterKey(text, key, n) ==
    LET hits == {p \in 1..Len(text) : KeyAt(text, p, key)}
    IN  (CHOOSE p \in hits : Cardinality({q \in hits : q < p}) = n - 1) + Len(key)

\* the character at pos, 0 past the end of the text
CharAt(text, pos) == IF pos <= Len(text) THEN text[pos] ELSE 0

\* the decimal digits at pos: <<value, position after them>>
RECURSIVE ReadDigits(_, _, _)
ReadDigits(text, pos, acc) ==
    IF CharAt(text, pos) >= 48 /\ CharAt(text, pos) <= 57
    THEN ReadDigits(text, pos + 1, 10 * acc + (text[pos] - 48))
    ELSE <<acc, pos>>

\* the same, the value a natural number of any size that continues acc
RECURSIVE ReadNat(_, _, _)
ReadNat(text, pos, acc) ==
    IF CharAt(text, pos) >= 48 /\ CharAt(text, pos) <= 57
    THEN ReadNat(text, pos + 1, NatScale(acc, 10, text[pos] - 48))
    ELSE <<acc, pos>>

\* the JSON value at pos, an integer or null, and the position after it
ReadValue(text, pos) ==
    IF text[pos] = 110 THEN [null |-> TRUE, v |-> 0, next |-> pos + 4]
    ELSE IF text[pos] = 45
         THEN LET r == ReadDigits(text, pos + 1, 0)
              IN  [null |-> FALSE, v |-> -r[1], next |-> r[2]]
         ELSE LET r == ReadDigits(text, pos, 0)
              IN  [null |-> FALSE, v |-> r[1], next |-> r[2]]

\* the double nearest to a / b
RatioOf(sign, a, b, shift) ==
    DoubleDivOf(sign, NatDivMod(NatShiftLeft(a, shift), b, 1), (-shift) - 1)

\* the double nearest to sign * n * 10^p: the value of a decimal numeral
DecimalValue(sign, n, p) ==
    IF n = <<>> THEN <<sign, <<>>, 0>>
    ELSE IF p >= 0 THEN RoundBinary(sign, NatMul(n, NatPow10(p)), 0, 53)
    ELSE RatioOf(sign, n, NatPow10(-p), NatBits(NatPow10(-p)) + 57)

\* the parts of a JSON number: the exponent x that ends at position next, after
\* the digits n of which places stand behind the point
NumberOf(sign, n, places, x, next) ==
    [null |-> FALSE, v |-> DecimalValue(sign, n, x - places), next |-> next]

ReadExponentOf(sign, n, places, minus, r) ==
    NumberOf(sign, n, places, IF minus THEN -r[1] ELSE r[1], r[2])

ReadExponent(text, pos, sign, n, places) ==
    IF CharAt(text, pos) \notin {101, 69} THEN NumberOf(sign, n, places, 0, pos)
    ELSE ReadExponentOf(sign, n, places, CharAt(text, pos + 1) = 45,
                        ReadDigits(text, IF CharAt(text, pos + 1) \in {43, 45}
                                         THEN pos + 2 ELSE pos + 1, 0))

ReadFractionOf(text, pos, sign, r) == ReadExponent(text, r[2], sign, r[1], r[2] - pos)

ReadFraction(text, sign, r) ==
    IF CharAt(text, r[2]) = 46
    THEN ReadFractionOf(text, r[2] + 1, sign, ReadNat(text, r[2] + 1, r[1]))
    ELSE ReadExponent(text, r[2], sign, r[1], 0)

\* the JSON value at pos, a number or null, the number as the double a JSON
\* parser takes it for, and the position after it
ReadNumber(text, pos) ==
    IF text[pos] = 110 THEN [null |-> TRUE, v |-> <<1, <<>>, 0>>, next |-> pos + 4]
    ELSE IF text[pos] = 45 THEN ReadFraction(text, -1, ReadNat(text, pos + 1, <<>>))
    ELSE ReadFraction(text, 1, ReadNat(text, pos, <<>>))

\* the three values of a JSON array [a,b,c] whose first value stands at pos,
\* each as [null |-> is it null, v |-> the number]
ReadTripleAt(text, a, b) ==
    << [null |-> a.null, v |-> a.v], [null |-> b.null, v |-> b.v],
       [null |-> ReadNumber(text, b.next + 1).null, v |-> ReadNumber(text, b.next + 1).v] >>

ReadTripleFrom(text, a) == ReadTripleAt(text, a, ReadNumber(text, a.next + 1))

ReadTriple(text, pos) == ReadTripleFrom(text, ReadNumber(text, pos))

\* "count":   "byteOffset":   "byteLength":   "min":[   "max":[
KeyCount == <<34, 99, 111, 117, 110, 116, 34, 58>>

KeyByteOffset == <<34, 98, 121, 116, 101, 79, 102, 102, 115, 101, 116, 34, 58>>

KeyByteLength == <<34, 98, 121, 116, 101, 76, 101, 110, 103, 116, 104, 34, 58>>

KeyMin == <<34, 109, 105, 110, 34, 58, 91>>

KeyMax == <<34, 109, 97, 120, 34, 58, 91>>

\* what the metadata of the file declares
Declared(buf) ==
    LET text == JsonChunk(buf)
    IN  [count      |-> [k \in 1..4 |-> ReadValue(text, AfterKey(text, KeyCount, k)).v],
         byteOffset |-> [k \in 1..4 |-> ReadValue(text, AfterKey(text, KeyByteOffset, k)).v],
         byteLength |-> [k \in 1..4 |-> ReadValue(text, AfterKey(text, KeyByteLength, k)).v],
         bufferLength |-> ReadValue(text, AfterKey(text, KeyByteLength, 5)).v,
         min        |-> ReadTriple(text, AfterKey(text, KeyMin, 1)),
         max        |-> ReadTriple(text, AfterKey(text, KeyMax, 1))]

\* the unsigned 16-bit little-endian values of a region
ReadUint16s(bytes) ==
    [k \in 1..(Len(bytes) \div 2) |-> bytes[2 * k - 1] + 256 * bytes[2 * k]]

\* the 32-bit float of the bytes b0 .. b3, lowest first
ReadFloat32Of(sign, frac, E) ==
    IF E = 0 /\ frac = 0 THEN <<sign, <<>>, 0>>
    ELSE <<sign, NatOf(8388608 + frac), E - 127 - 23>>

ReadFloat32(b0, b1, b2, b3) ==
    ReadFloat32Of(IF b3 >= 128 THEN -1 ELSE 1,
                  (b2 % 128) * 65536 + b1 * 256 + b0,
                  (b3 % 128) * 2 + b2 \div 128)

\* the 32-bit floats of a region
ReadFloat32s(bytes) ==
    [k \in 1..(Len(bytes) \div 4) |->
        ReadFloat32(bytes[4 * k - 3], bytes[4 * k - 2], bytes[4 * k - 1], bytes[4 * k])]

\* the region of the binary chunk a buffer view declares
Region(buf, d, k) ==
    SubSeq(BinChunk(buf), d.byteOffset[k] + 1, d.byteOffset[k] + d.byteLength[k])

\* x = y on numbers (-0 and +0 are equal)
SameNumber(x, y) == SignOf(ExactSub(x, y)) = 0

(***************************************************************************)
(* Claims about mergeGeometries.                                           *)
(***************************************************************************)
\* the vertices and the indices of the parts before part k, on a part list in
\* run-length form
RECURSIVE PackedVertsBefore(_, _)
PackedVertsBefore(ps, k) ==
    IF k = 1 THEN 0
    ELSE ElemCount(ps[k - 1].geo.positions) \div 3 + PackedVertsBefore(ps, k - 1)

RECURSIVE PackedIdxBefore(_, _)
PackedIdxBefore(ps, k) ==
    IF k = 1 THEN 0
    ELSE ElemCount(ps[k - 1].geo.indices) + PackedIdxBefore(ps, k - 1)

\* C1: for any list of Placed Parts, the merged index buffer holds at position
\* (index count of the prior parts + i) the part's own i-th index plus the
\* number of vertices of the prior parts.  The code stores the sum in a
\* Uint16Array: it is taken modulo 65536, and the statement fails for a list
\* of more than 65536 vertices.
C1_RebasedIndices ==
    pc = "merged" =>
        LET indices == Elems(merged.indices)
        IN  \A k \in 1..Len(parts) :
                LET own == Elems(parts[k].geo.indices)
                IN  \A i \in 1..Len(own) :
                        indices[PackedIdxBefore(parts, k) + i]
                            = own[i] + PackedVertsBefore(parts, k)

\* C2: for any Merged Mesh returned by mergeGeometries, every merged index is
\* strictly less than vertexCount, indexCount is a multiple of 3, vertexCount
\* is the length of the position buffer divided by 3 and indexCount the length
\* of the index buffer.
C2_MergedMeshCounts ==
    pc = "merged" =>
        LET indices == Elems(merged.indices)
        IN  /\ \A i \in 1..Len(indices) : indices[i] < merged.vertexCount
            /\ merged.indexCount % 3 = 0
            /\ merged.vertexCount * 3 = ElemCount(merged.positions)
            /\ merged.indexCount = Len(indices)

\* a merge of two parts whose vertices a 16-bit index cannot all address
C2_Witness ==
    /\ pc = "merged"
    /\ Len(parts) = 2
    /\ merged.vertexCount > 65536
    /\ merged.indexCount = 6

(***************************************************************************)
(* Claims about writeGLB.                                                  *)
(***************************************************************************)
\* the least multiple of 4 that is >= n
LeastMultipleOf4(n) == CHOOSE m \in n..(n + 3) : m % 4 = 0

\* the number of space bytes that end a text
RECURSIVE TrailingSpaces(_)
TrailingSpaces(text) ==
    IF text # <<>> /\ text[Len(text)] = 32
    THEN 1 + TrailingSpaces(SubSeq(text, 1, Len(text) - 1))
    ELSE 0

\* C3: the total-length field at byte offset 8 is the byte length of the
\* file, which is 12 + 8 + padded metadata + 8 + binary; the metadata-chunk
\* length field at offset 12 is the length of the space-padded metadata text
\* (the binary chunk's header follows it) and a multiple of 4; the
\* binary-chunk length field counts the bytes from its type tag to the end.
C3_LengthFields ==
    pc = "written" =>
        LET jsonLen == U32At(glb, 12)
            binLen  == U32At(glb, 20 + jsonLen)
            text    == JsonChunk(glb)
            pad     == TrailingSpaces(text)
        IN  /\ U32At(glb, 8) = Len(glb)
            /\ Len(glb) = 12 + 8 + jsonLen + 8 + binLen
            /\ jsonLen % 4 = 0
            /\ Len(text) = jsonLen
            /\ pad < 4
            /\ text[1] = 123
            /\ text[jsonLen - pad] = 125
            /\ SubSeq(glb, 25 + jsonLen, 28 + jsonLen) = <<66, 73, 78, 0>>
            /\ binLen = Len(glb) - (28 + jsonLen)
            /\ binLen = Len(BinChunk(glb))

\* a file whose metadata text needed padding, for a mesh of two parts
C3_Witness ==
    /\ pc = "written"
    /\ Len(parts) = 2
    /\ TrailingSpaces(JsonChunk(glb)) > 0
    /\ U32At(glb, 8) = Len(glb)

\* C4: the binary chunk holds indices, positions, normals, colors in this
\* order: the declared byte offsets are 0, pad4(indexBytes), + posBytes,
\* + normBytes, with pad4(n) the least multiple of 4 >= n; the regions do not
\* overlap, the float regions start on a 4-byte boundary, the declared buffer
\* length is the end of the color region, each region holds exactly the
\* merged array, and the index padding bytes are zero.
C4_BinaryLayout ==
    pc = "written" =>
        LET d         == Declared(glb)
            m         == UnpackMesh(merged)
            bin       == BinChunk(glb)
            idxBytes  == 2 * Len(m.indices)
            posBytes  == 4 * Len(m.positions)
            normBytes == 4 * Len(m.normals)
            colBytes  == 4 * Len(m.colors)
            idxPad    == LeastMultipleOf4(idxBytes)
        IN  /\ d.byteOffset = <<0, idxPad, idxPad + posBytes, idxPad + posBytes + normBytes>>
            /\ d.byteLength = <<idxBytes, posBytes, normBytes, colBytes>>
            /\ \A k \in 1..3 : d.byteOffset[k] + d.byteLength[k] <= d.byteOffset[k + 1]
            /\ \A k \in 2..4 : d.byteOffset[k] % 4 = 0
            /\ d.bufferLength = d.byteOffset[4] + d.byteLength[4]
            /\ d.bufferLength = Len(bin)
            /\ ReadUint16s(Region(glb, d, 1)) = m.indices
            /\ ReadFloat32s(Region(glb, d, 2)) = m.positions
            /\ ReadFloat32s(Region(glb, d, 3)) = m.normals
            /\ ReadFloat32s(Region(glb, d, 4)) = m.colors
            /\ \A j \in (idxBytes + 1)..idxPad : bin[j] = 0

\* a file of a triangle and a box: 78 index bytes, padded to 80
C4_Witness ==
    /\ pc = "written"
    /\ merged.indexCount = 39
    /\ Declared(glb).byteOffset[2] = 80
    /\ Declared(glb).byteLength[1] = 78
    /\ BinChunk(glb)[79] = 0

\* the bound b of the metadata is the number x
IsNumber(b, x) == ~b.null /\ SameNumber(b.v, x)

\* the components c of the vertices of a position buffer
Components(positions, c) ==
    {positions[3 * i + c] : i \in 0..(Len(positions) \div 3 - 1)}

\* the min and max of the position accessor are the component-wise minimum
\* and maximum of the vertices: bounds of every vertex, attained by one
BoundsAreTrue(buf, positions) ==
    LET d == Declared(buf)
    IN  \A c \in 1..3 :
            /\ ~d.min[c].null
            /\ ~d.max[c].null
            /\ \A x \in Components(positions, c) :
                  DoubleLeq(d.min[c].v, x) /\ DoubleLeq(x, d.max[c].v)
            /\ \E x \in Components(positions, c) : SameNumber(d.min[c].v, x)
            /\ \E x \in Components(positions, c) : SameNumber(d.max[c].v, x)

\* C5 (as amended): for every Merged Mesh of at least one vertex passed to
\* writeGLB, the min and max triples of the position accessor are the true
\* component-wise minimum and maximum over the vertices of the position
\* buffer: they bound every vertex and each is attained by some vertex.
C5_BoundingBox ==
    (pc = "written" /\ merged.vertexCount >= 1) =>
        BoundsAreTrue(glb, Elems(merged.positions))

\* a file of two translated parts: the box is not centred on the origin, and
\* the largest x, that of the triangle's corner 2 - 0.85, is a 32-bit float
\* that the metadata holds with the digits 1.149999976158142
C5_Witness ==
    /\ pc = "written"
    /\ Len(parts) = 2
    /\ merged.vertexCount = 27
    /\ IsNumber(Declared(glb).min[1], DoubleOf(-6))
    /\ IsNumber(Declared(glb).max[1], Float32Of(DoubleAdd(DoubleOf(2), Literal(-85, 100))))
    /\ KeyAt(JsonChunk(glb), AfterKey(JsonChunk(glb), KeyMax, 1),
             <<49, 46, 49, 52, 57, 57, 57, 57, 57, 55, 54, 49, 53, 56, 49, 52, 50, 44>>)

\* C5 as stated: for every Merged Mesh passed to writeGLB.  It fails for the
\* mesh of an empty part list: no vertex attains a bound, and the metadata
\* holds null for the six numbers.
C5_AsStated ==
    pc = "written" => BoundsAreTrue(glb, Elems(merged.positions))

(***************************************************************************)
(* encodePNG: checksums.                                                   *)
(***************************************************************************)
\* the constant 0xedb88320
CrcPoly == <<60856, 33568>>

\* k rounds of  c = c & 1 ? 0xedb88320 ^ (c >>> 1) : c >>> 1
RECURSIVE CrcRounds(_, _)
CrcRounds(c, k) ==
    IF k = 0 THEN c
    ELSE CrcRounds(IF c[2] % 2 = 1 THEN Xor32(CrcPoly, Shr1(c)) ELSE Shr1(c), k - 1)

crcTable == [n \in 0..255 |-> CrcRounds(<<0, n>>, 8)]

\* one iteration of crc32's loop: c = (c >>> 8) ^ crcTable[(c ^ buf[i]) & 0xff]
CrcStep(c, byte) == Xor32(Shr8(c), crcTable[Xor8(c[2] % 256, byte)])

\* crc32's loop over buf[lo..hi], entered with c
RECURSIVE CrcLoop(_, _, _, _)
CrcLoop(buf, lo, hi, c) ==
    IF lo > hi THEN c
    ELSE IF lo = hi THEN CrcStep(c, buf[lo])
    ELSE LET mid == (lo + hi) \div 2
             c1 == CrcLoop(buf, lo, mid, c)
         IN  IF c1[1] >= 0 THEN CrcLoop(buf, mid + 1, hi, c1) ELSE c1

\* mutant of crc32: the final  ^ -1  is forgotten
crc32_NoFinalXor(buf) == CrcLoop(buf, 1, Len(buf), AllOnes)

crc32(buf) == Xor32(CrcLoop(buf, 1, Len(buf), AllOnes), AllOnes)

\* mutant of AdlerStep: the sums are reduced modulo 65536 instead of 65521
AdlerStep_Mod65536(s, byte) ==
    LET a == (s[1] + byte) % 65536
    IN  <<a, (s[2] + a) % 65536>>

\* one iteration of adler32's loop on s = <<a, b>>
AdlerStep(s, byte) ==
    LET a == (s[1] + byte) % 65521
    IN  <<a, (s[2] + a) % 65521>>

RECURSIVE AdlerLoop(_, _, _, _)
AdlerLoop(data, lo, hi, s) ==
    IF lo > hi THEN s
    ELSE IF lo = hi THEN AdlerStep(s, data[lo])
    ELSE LET mid == (lo + hi) \div 2
             s1 == AdlerLoop(data, lo, mid, s)
         IN  IF s1[1] >= 0 THEN AdlerLoop(data, mid + 1, hi, s1) ELSE s1

\* ((b << 16) | a) >>> 0 : b is the high half and a the low half of the word
adler32(data) ==
    LET s == AdlerLoop(data, 1, Len(data), <<1, 0>>)
    IN  <<s[2] % 65536, s[1] % 65536>>

(***************************************************************************)
(* encodePNG: raw stream, stored deflate blocks, zlib envelope, chunks.    *)
(***************************************************************************)
BLOCK_SIZE == 65535

Min(a, b) == IF a < b THEN a ELSE b

\* concatenation of a sequence of byte sequences, in order
RECURSIVE Concat(_)
Concat(ss) == IF ss = <<>> THEN <<>> ELSE Head(ss) \o Concat(Tail(ss))

\* mutant of RawData: the pixel index is one too far
RawData_ShiftedPixels(w, h, px) ==
    [k \in 1..(h * (1 + w * 4)) |->
        LET y == (k - 1) \div (1 + w * 4)
            x == (k - 1) % (1 + w * 4)
        IN  IF x = 0 THEN 0
            ELSE IF y * w * 4 + x + 1 <= Len(px) THEN px[y * w * 4 + x + 1] ELSE 0]

\* rawData: each row is the filter byte 0 followed by the row's width * 4 bytes
RawData(w, h, px) ==
    [k \in 1..(h * (1 + w * 4)) |->
        LET y == (k - 1) \div (1 + w * 4)
            x == (k - 1) % (1 + w * 4)
        IN  IF x = 0 THEN 0 ELSE px[y * w * 4 + x]]

\* mutant of StoredBlock: NLEN repeats LEN instead of complementing it
StoredBlock_NoComplement(raw, i) ==
    LET end    == Min(i + BLOCK_SIZE, Len(raw))
        isLast == end = Len(raw)
        len    == end - i
    IN  << IF isLast THEN 1 ELSE 0,
           len % 256,
           (len \div 256) % 256,
           len % 256,
           (len \div 256) % 256 >>
        \o SubSeq(raw, i + 1, end)

\* the stored block built by the loop body at offset i of rawData
StoredBlock(raw, i) ==
    LET end    == Min(i + BLOCK_SIZE, Len(raw))
        isLast == end = Len(raw)
        len    == end - i
        nlen   == -len - 1                      \* ~len
    IN  << IF isLast THEN 1 ELSE 0,
           len % 256,
           (len \div 256) % 256,
           nlen % 256,
           (nlen \div 256) % 256 >>
        \o SubSeq(raw, i + 1, end)

\* for (let i = 0; i < rawData.length; i += BLOCK_SIZE) blocks.push(block)
RECURSIVE BlocksFrom(_, _)
BlocksFrom(raw, i) ==
    IF i < Len(raw) THEN <<StoredBlock(raw, i)>> \o BlocksFrom(raw, i + BLOCK_SIZE)
    ELSE <<>>

\* mutant of ZlibData: the trailing checksum is left out
ZlibData_NoChecksum(raw) == <<120, 1>> \o Concat(BlocksFrom(raw, 0))

\* zlibData: header 0x78 0x01, the blocks, the big-endian Adler-32 of rawData
ZlibData(raw) == <<120, 1>> \o Concat(BlocksFrom(raw, 0)) \o BytesBE(adler32(raw))

\* makeChunk(type, data); type is the sequence of the four character codes
makeChunk(type, data) ==
    LET crcBuf == type \o data                  \* chunk.subarray(4, 8 + data.length)
    IN  BytesBE(U32(Len(data))) \o crcBuf \o BytesBE(crc32(crcBuf))

TypeIHDR == <<73, 72, 68, 82>>

TypeIDAT == <<73, 68, 65, 84>>

TypeIEND == <<73, 69, 78, 68>>

\* ihdr: width, height, bit depth 8, colour type 6, then three zero bytes
IhdrData(w, h) == BytesBE(U32(w)) \o BytesBE(U32(h)) \o <<8, 6, 0, 0, 0>>

signature == <<137, 80, 78, 71, 13, 10, 26, 10>>

encodePNG(w, h, px) ==
    signature
    \o makeChunk(TypeIHDR, IhdrData(w, h))
    \o makeChunk(TypeIDAT, ZlibData(RawData(w, h, px)))
    \o makeChunk(TypeIEND, <<>>)

(***************************************************************************)
(* icons: createPNG.  A colour is <<cr, cg, cb, ca>>, cr, cg and cb        *)
(* doubles and ca an integer.                                              *)
(***************************************************************************)
\* the numbers of createPNG that depend on size only, from the double s of size
RingNumbers(s) ==
    [size      |-> s,
     cx        |-> DoubleDiv(s, DoubleOf(2)),
     cy        |-> DoubleDiv(s, DoubleOf(2)),
     ringCx    |-> DoubleMul(s, Literal(43, 100)),
     ringCy    |-> DoubleMul(s, Literal(43, 100)),
     ringR     |-> DoubleMul(s, Literal(234, 1000)),
     margin    |-> DoubleMul(s, Literal(156, 1000)),
     cornerR   |-> DoubleMul(s, Literal(156, 1000)),
     far       |-> DoubleSub(s, DoubleMul(s, Literal(156, 1000))),
     spread    |-> DoubleMul(s, Literal(7, 10)),
     ringWidth |-> DoubleMul(s, Literal(27, 1000)),
     handleEndX |-> DoubleMul(s, Literal(82, 100)),
     handleEndY |-> DoubleMul(s, Literal(86, 100)),
     handleW   |-> DoubleMul(s, Literal(25, 1000)),
     eyeDx     |-> DoubleMul(s, Literal(33, 1000)),
     eyeDy     |-> DoubleMul(s, Literal(4, 100)),
     eyeSize   |-> DoubleMul(s, Literal(27, 1000)),
     skullW    |-> DoubleMul(s, Literal(94, 1000)),
     skullH    |-> DoubleMul(s, Literal(82, 1000)),
     skullDy   |-> DoubleMul(s, Literal(1, 100)),
     textY     |-> DoubleMul(s, Literal(76, 100)),
     textH     |-> DoubleMul(s, Literal(6, 100)),
     barW      |-> DoubleMul(s, Literal(12, 1000)),
     barGap    |-> DoubleMul(s, Literal(4, 100))]

\* Math.sqrt(ax*ax + ay*ay)
Hypot(ax, ay) == DoubleSqrt(DoubleAdd(DoubleMul(ax, ax), DoubleMul(ay, ay)))

\* the handle's segment: its start, its length and its unit direction
HandleDirection(c, startX, startY, hlx, hly, hLen) ==
    c @@ [handleStartX |-> startX, handleStartY |-> startY, hLen |-> hLen,
          hnx |-> DoubleDiv(hlx, hLen), hny |-> DoubleDiv(hly, hLen)]

HandleSpan(c, startX, startY, hlx, hly) ==
    HandleDirection(c, startX, startY, hlx, hly, Hypot(hlx, hly))

HandleStart(c, startX, startY) ==
    HandleSpan(c, startX, startY, DoubleSub(c.handleEndX, startX), DoubleSub(c.handleEndY, startY))

HandleNumbers(c) ==
    HandleStart(c, DoubleAdd(c.ringCx, DoubleMul(c.ringR, Literal(65, 100))),
                   DoubleAdd(c.ringCy, DoubleMul(c.ringR, Literal(65, 100))))

IconNumbers(n) == HandleNumbers(RingNumbers(DoubleOf(n)))

\* the rounded-rectangle test: inside unless in a corner square and farther
\* than cornerR from the corner's centre
Inside(x, y, c) ==
    LET lowX   == DoubleLess(x, c.margin)
        lowY   == DoubleLess(y, c.margin)
        highX  == DoubleLeq(c.far, x)
        highY  == DoubleLeq(c.far, y)
        Near(px, py) == DoubleLeq(Hypot(DoubleSub(x, px), DoubleSub(y, py)), c.cornerR)
    IN  IF lowX /\ lowY THEN Near(c.margin, c.margin)
        ELSE IF highX /\ lowY THEN Near(c.far, c.margin)
        ELSE IF lowX /\ highY THEN Near(c.margin, c.far)
        ELSE IF highX /\ highY THEN Near(c.far, c.far)
        ELSE TRUE

\* the background gradient: bg is 1 at the centre and falls to 0
Gradient(bg) ==
    <<DoubleAdd(DoubleOf(5), DoubleMul(bg, DoubleOf(21))),
      DoubleAdd(DoubleOf(4), DoubleMul(bg, DoubleOf(16))),
      DoubleAdd(DoubleOf(3), DoubleMul(bg, DoubleOf(5))),
      255>>

Background(x, y, c) ==
    Gradient(MathMax(DoubleOf(0), MathMin(DoubleOf(1),
        DoubleSub(DoubleOf(1), DoubleDiv(Hypot(DoubleSub(x, c.cx), DoubleSub(y, c.cy)), c.spread)))))

\* the gold ring of the magnifying glass, and the tint of the glass inside it
Ring(col, ringDist, c) ==
    IF DoubleLess(MathAbs(DoubleSub(ringDist, c.ringR)), c.ringWidth)
    THEN <<DoubleOf(200), DoubleOf(168), DoubleOf(80), col[4]>>
    ELSE col

Glass(col, ringDist, c) ==
    IF DoubleLess(ringDist, DoubleSub(c.ringR, c.ringWidth))
    THEN <<DoubleAdd(DoubleMul(col[1], Literal(85, 100)), DoubleMul(DoubleOf(200), Literal(5, 100))),
           DoubleAdd(DoubleMul(col[2], Literal(85, 100)), DoubleMul(DoubleOf(180), Literal(5, 100))),
           DoubleAdd(DoubleMul(col[3], Literal(85, 100)), DoubleMul(DoubleOf(120), Literal(3, 100))),
           col[4]>>
    ELSE col

\* the handle: the pixels that project onto the segment and lie near it
HandleAt(col, hpx, hpy, hProj, c) ==
    IF DoubleLeq(DoubleOf(0), hProj) /\ DoubleLeq(hProj, c.hLen)
       /\ DoubleLess(MathAbs(DoubleSub(DoubleMul(hpx, c.hny), DoubleMul(hpy, c.hnx))), c.handleW)
    THEN <<DoubleOf(138), DoubleOf(106), DoubleOf(48), col[4]>>
    ELSE col

HandleFrom(col, hpx, hpy, c) ==
    HandleAt(col, hpx, hpy, DoubleAdd(DoubleMul(hpx, c.hnx), DoubleMul(hpy, c.hny)), c)

Handle(col, x, y, c) ==
    HandleFrom(col, DoubleSub(x, c.handleStartX), DoubleSub(y, c.handleStartY), c)

\* the two eyes of the skull
Eyes(col, x, y, c) ==
    LET ey   == DoubleSub(y, DoubleSub(c.ringCy, c.eyeDy))
        eyeL == Hypot(DoubleSub(x, DoubleSub(c.ringCx, c.eyeDx)), ey)
        eyeR == Hypot(DoubleSub(x, DoubleAdd(c.ringCx, c.eyeDx)), ey)
    IN  IF DoubleLess(eyeL, c.eyeSize) \/ DoubleLess(eyeR, c.eyeSize)
        THEN <<DoubleOf(200), DoubleOf(180), DoubleOf(122), col[4]>>
        ELSE col

\* the outline of the skull, an ellipse
Skull(col, x, y, c) ==
    LET skullDx   == DoubleDiv(DoubleSub(x, c.ringCx), c.skullW)
        skullDy   == DoubleDiv(DoubleSub(y, DoubleSub(c.ringCy, c.skullDy)), c.skullH)
        skullDist == Hypot(skullDx, skullDy)
    IN  IF DoubleLess(MathAbs(DoubleSub(skullDist, DoubleOf(1))), Literal(12, 100))
        THEN <<DoubleOf(200), DoubleOf(180), DoubleOf(122), 200>>
        ELSE col

\* the three vertical bars of the text area
Bars(col, x, y, c) ==
    IF /\ DoubleLess(c.textY, y)
       /\ DoubleLess(y, DoubleAdd(c.textY, c.textH))
       /\ \E b \in {-1, 0, 1} :
             DoubleLess(MathAbs(DoubleSub(x, DoubleAdd(c.cx, DoubleMul(DoubleOf(b), c.barGap)))),
                        c.barW)
    THEN <<DoubleOf(200), DoubleOf(180), DoubleOf(122), 150>>
    ELSE col

\* the four stores into the Uint8Array
Stored(col) == <<MathRound(col[1]) % 256, MathRound(col[2]) % 256, MathRound(col[3]) % 256, col[4]>>

Painted(x, y, c, ringDist) ==
    Stored(Bars(Skull(Eyes(Handle(Glass(Ring(Background(x, y, c), ringDist, c), ringDist, c),
                                  x, y, c), x, y, c), x, y, c), x, y, c))

\* the body of the two loops for the pixel of column x and row y (doubles)
PixelAt(x, y, c) ==
    IF ~Inside(x, y, c) THEN <<0, 0, 0, 0>>
    ELSE Painted(x, y, c, Hypot(DoubleSub(x, c.ringCx), DoubleSub(y, c.ringCy)))

\* the buffer of the pixels px, 4 bytes each
PixelBuffer(px) == [i \in 1..(4 * Len(px)) |-> px[((i - 1) \div 4) + 1][((i - 1) % 4) + 1]]

\* the two loops: row y = 0..n-1, column x = 0..n-1, pixel y * n + x
PixelsWith(n, c) ==
    PixelBuffer(SubSeq([k \in 1..(n * n) |->
                           PixelAt(DoubleOf((k - 1) % n), DoubleOf((k - 1) \div n), c)],
                       1, n * n))

\* the pixel buffer createPNG(size) hands to encodePNG
CreatePixels(n) == PixelsWith(n, IconNumbers(n))

(***************************************************************************)
(* The icon script as a state machine.                                     *)
(*   pc = "size"    : createPNG is called with a size                      *)
(*   pc = "icon"    : encodePNG is called with a pixel buffer              *)
(*   pc = "encoded" : encodePNG has returned                               *)
(* encodePNG is called by createPNG, with the buffer it has painted, and   *)
(* with buffers of the colours of createPNG in other arrangements.         *)
(***************************************************************************)
\* background, ring and outline colours painted by createPNG, and white
PixelBases == { <<0, 0, 0, 255>>, <<255, 255, 255, 255>>,
                <<200, 168, 80, 255>>, <<200, 180, 122, 200>>, <<0, 0, 0, 0>> }

\* an n x n buffer: pixel j is base shifted by j * stride in every channel
PixelRamp(n, base, stride) ==
    [i \in 1..(n * n * 4) |-> (base[((i - 1) % 4) + 1] + ((i - 1) \div 4) * stride) % 256]

IconInputs ==
    {<<n, b, s>> : n \in 1..MaxSize, b \in PixelBases, s \in 0..MaxStride}
    \cup {<<BigSize, <<200, 168, 80, 255>>, 1>>}

InitPNG ==
    /\ shape = <<>> /\ geo = <<>>
    /\ parts = <<>> /\ merged = <<>> /\ glb = <<>>
    /\ \/ /\ pc = "size"
          /\ size \in 1..MaxIcon
          /\ width = 0 /\ height = 0 /\ pixels = <<>>
       \/ /\ pc = "icon"
          /\ size = 0
          /\ \E in \in IconInputs :
                /\ width = in[1]
                /\ height = in[1]
                /\ pixels = PixelRamp(in[1], in[2], in[3])
    /\ png = <<>>

\* createPNG(size) up to its call of encodePNG(size, size, pixels)
CreatePNG ==
    /\ pc = "size"
    /\ \E px \in {CreatePixels(size)} : pixels' = px
    /\ width' = size
    /\ height' = size
    /\ pc' = "icon"
    /\ UNCHANGED <<shape, geo, parts, merged, glb, size, png>>

\* encodePNG(width, height, pixels)
EncodePNG ==
    /\ pc = "icon"
    /\ png' = encodePNG(width, height, pixels)
    /\ pc' = "encoded"
    /\ UNCHANGED <<shape, geo, parts, merged, glb, size, width, height, pixels>>

NextPNG == CreatePNG \/ EncodePNG

SpecPNG == InitPNG /\ [][NextPNG]_vars

(***************************************************************************)
(* A reader of the Image Container, written from the container format and  *)
(* not from the encoder: chunks, stored deflate blocks, scanlines.         *)
(***************************************************************************)
\* the chunk starting at offset p (0-based) of buf, if one fits there
ChunkAt(buf, p) ==
    LET bad == [ok |-> FALSE, len |-> 0, type |-> <<>>, data |-> <<>>,
                crc |-> <<>>, next |-> Len(buf)]
    IN  IF p + 12 > Len(buf) \/ buf[p + 1] # 0 THEN bad
        ELSE LET len == (buf[p + 2] * 256 + buf[p + 3]) * 256 + buf[p + 4]
             IN  IF p + 12 + len > Len(buf) THEN bad
                 ELSE [ok   |-> TRUE,
                       len  |-> len,
                       type |-> SubSeq(buf, p + 5, p + 8),
                       data |-> SubSeq(buf, p + 9, p + 8 + len),
                       crc  |-> SubSeq(buf, p + 9 + len, p + 12 + len),
                       next |-> p + 12 + len]

RECURSIVE ChunksFrom(_, _)
ChunksFrom(buf, p) ==
    IF p >= Len(buf) THEN <<>>
    ELSE LET c == ChunkAt(buf, p)
         IN  IF c.ok THEN <<c>> \o ChunksFrom(buf, c.next) ELSE <<c>>

\* the chunks that follow the 8-byte signature
PngChunks(buf) == ChunksFrom(buf, 8)

\* the deflate block starting at offset p (0-based) of the zlib stream z
BlockAt(z, p) ==
    LET bad == [ok |-> FALSE, final |-> 1, len |-> 0, nlen |-> 0,
                payload |-> <<>>, next |-> Len(z)]
    IN  IF p + 5 > Len(z) THEN bad
        ELSE LET len == z[p + 2] + 256 * z[p + 3]
             IN  IF p + 5 + len > Len(z) THEN bad
                 ELSE [ok      |-> TRUE,
                       final   |-> z[p + 1],
                       len     |-> len,
                       nlen    |-> z[p + 4] + 256 * z[p + 5],
                       payload |-> SubSeq(z, p + 6, p + 5 + len),
                       next    |-> p + 5 + len]

\* the blocks of z from offset p up to and including the first one not
\* marked 0 (a conformant inflater stops at the block marked final)
RECURSIVE BlocksAt(_, _)
BlocksAt(z, p) ==
    LET b == BlockAt(z, p)
    IN  IF b.ok /\ b.final = 0 THEN <<b>> \o BlocksAt(z, b.next) ELSE <<b>>

\* the blocks that follow the 2-byte zlib header
ZlibBlocks(z) == BlocksAt(z, 2)

Payloads(bs) == Concat([j \in 1..Len(bs) |-> bs[j].payload])

\* the pixel bytes of a raw stream of h rows of 1 + 4w bytes: filter bytes dropped
Unfilter(raw, w, h) ==
    [i \in 1..(w * h * 4) |->
        raw[((i - 1) \div (4 * w)) * (4 * w + 1) + 1 + ((i - 1) % (4 * w)) + 1]]

\* the filter bytes of the rows of a raw stream
FilterBytes(raw, w, h) == {raw[y * (4 * w + 1) + 1] : y \in 0..(h - 1)}

\* the filter-byte-prefixed row stream of the pixel buffer, row by row
RECURSIVE RowStream(_, _, _, _)
RowStream(px, w, h, y) ==
    IF y >= h THEN <<>>
    ELSE <<0>> \o SubSeq(px, y * 4 * w + 1, (y + 1) * 4 * w) \o RowStream(px, w, h, y + 1)

\* the IDAT payload of the encoded icon, and what it decodes to
IdatData == PngChunks(png)[2].data

IdatBlocks == ZlibBlocks(IdatData)

Encoded == pc = "encoded"

\* C6: reading the output as signature, IHDR, one IDAT and an empty IEND,
\* concatenating the stored blocks' payloads and dropping the filter byte (0)
\* of each row gives back width = height = N, bit depth 8, colour type 6 and
\* exactly the input pixel bytes in row-major order.
C6_RoundTrip ==
    Encoded =>
        LET cs == PngChunks(png)
        IN  /\ SubSeq(png, 1, 8) = <<137, 80, 78, 71, 13, 10, 26, 10>>
            /\ Len(cs) = 3
            /\ \A k \in 1..3 : cs[k].ok
            /\ cs[1].type = <<73, 72, 68, 82>>
            /\ cs[2].type = <<73, 68, 65, 84>>
            /\ cs[3].type = <<73, 69, 78, 68>>
            /\ cs[3].len = 0
            /\ cs[3].next = Len(png)
            /\ cs[1].data = <<0, 0, 0, width, 0, 0, 0, height, 8, 6, 0, 0, 0>>
            /\ LET bs  == ZlibBlocks(cs[2].data)
                   raw == Payloads(bs)
               IN  /\ \A j \in 1..Len(bs) : bs[j].ok
                   /\ Len(raw) = height * (1 + 4 * width)
                   /\ FilterBytes(raw, width, height) = {0}
                   /\ Unfilter(raw, width, height) = pixels

C6_Witness ==
    /\ Encoded
    /\ width = 3
    /\ pixels[1] # pixels[5]
    /\ Unfilter(Payloads(IdatBlocks), width, height) = pixels

\* C7: a raw stream of R >= 1 bytes is emitted as ceil(R / 65535) stored
\* blocks that partition it in order; each block carries at most 65535 bytes,
\* its header byte is 1 for the last block and 0 for every other, LEN is its
\* payload length, NLEN the 16-bit one's complement of LEN, and only the
\* 4-byte checksum follows the block marked final.
C7_StoredBlocks ==
    Encoded =>
        LET z  == IdatData
            bs == IdatBlocks
            n  == Len(bs)
            R  == height * (1 + 4 * width)
        IN  /\ R >= 1
            /\ n = (R + 65534) \div 65535
            /\ \A j \in 1..n :
                  /\ bs[j].ok
                  /\ bs[j].final = (IF j = n THEN 1 ELSE 0)
                  /\ bs[j].len = Len(bs[j].payload)
                  /\ bs[j].len <= 65535
                  /\ bs[j].len = (IF j = n THEN R - 65535 * (n - 1) ELSE 65535)
                  /\ bs[j].nlen = 65535 - bs[j].len
            /\ bs[n].next + 4 = Len(z)
            /\ Payloads(bs) = RowStream(pixels, width, height, 0)

C7_Witness ==
    /\ Encoded
    /\ Len(IdatBlocks) = 2
    /\ IdatBlocks[1].final = 0 /\ IdatBlocks[1].len = 65535
    /\ IdatBlocks[2].final = 1 /\ IdatBlocks[2].len >= 1

\* CRC-32 bit by bit: reflected polynomial 0xEDB88320, register initialised to
\* and finally XORed with 0xFFFFFFFF
RECURSIVE RefCrcBits(_, _)
RefCrcBits(c, k) ==
    IF k = 0 THEN c
    ELSE LET s == Shr1(c)
         IN  RefCrcBits(IF c[2] % 2 = 1 THEN Xor32(s, <<60856, 33568>>) ELSE s, k - 1)

RECURSIVE RefCrcBytes(_, _, _, _)
RefCrcBytes(buf, lo, hi, c) ==
    IF lo > hi THEN c
    ELSE IF lo = hi THEN RefCrcBits(<<c[1], Xor16(c[2], buf[lo])>>, 8)
    ELSE LET mid == (lo + hi) \div 2
             c1 == RefCrcBytes(buf, lo, mid, c)
         IN  IF c1[1] >= 0 THEN RefCrcBytes(buf, mid + 1, hi, c1) ELSE c1

RefCrc32(buf) == Xor32(RefCrcBytes(buf, 1, Len(buf), <<65535, 65535>>), <<65535, 65535>>)

\* C8: every chunk is 4-byte big-endian payload length, 4 type bytes, payload,
\* 4-byte big-endian CRC; the length field is the payload byte count (the
\* three chunks tile the file after the signature) and the stored CRC is a
\* fresh bit-by-bit CRC-32 over the type bytes followed by the payload.
C8_ChunkFraming ==
    Encoded =>
        LET cs == PngChunks(png)
            R  == height * (1 + 4 * width)
        IN  /\ Len(cs) = 3
            /\ \A k \in 1..3 :
                  /\ cs[k].ok
                  /\ cs[k].len = Len(cs[k].data)
                  /\ cs[k].crc = BytesBE(RefCrc32(cs[k].type \o cs[k].data))
            /\ cs[1].len = 13
            /\ cs[2].len = 2 + 5 * ((R + 65534) \div 65535) + R + 4
            /\ cs[3].len = 0
            /\ cs[3].next = Len(png)

C8_Witness ==
    /\ Encoded
    /\ width = 2
    /\ LET c == PngChunks(png)[2]
       IN  /\ c.type = <<73, 68, 65, 84>>
           /\ c.len = 29
           /\ c.crc = BytesBE(RefCrc32(c.type \o c.data))

\* Adler-32 by its sums: a = 1 + sum of the bytes, b = n + the sum of the
\* bytes weighted by the number of bytes from each to the end, both mod 65521
RECURSIVE WeightedSum(_, _, _, _)
WeightedSum(data, lo, hi, weighted) ==
    IF lo > hi THEN 0
    ELSE IF lo = hi
         THEN (IF weighted THEN (Len(data) - lo + 1) * data[lo] ELSE data[lo]) % 65521
    ELSE LET mid == (lo + hi) \div 2
         IN  (WeightedSum(data, lo, mid, weighted)
              + WeightedSum(data, mid + 1, hi, weighted)) % 65521

RefAdlerA(data) == (1 + WeightedSum(data, 1, Len(data), FALSE)) % 65521

RefAdlerB(data) == (Len(data) + WeightedSum(data, 1, Len(data), TRUE)) % 65521

\* C9: the last 4 bytes of the zlib envelope are, big-endian, b * 65536 + a
\* for the Adler-32 sums a and b of the whole filter-byte-prefixed row stream.
C9_Adler ==
    Encoded =>
        LET z   == IdatData
            raw == RowStream(pixels, width, height, 0)
            a   == RefAdlerA(raw)
            b   == RefAdlerB(raw)
        IN  /\ Len(z) >= 4
            /\ SubSeq(z, Len(z) - 3, Len(z)) = <<b \div 256, b % 256, a \div 256, a % 256>>

C9_Witness ==
    /\ Encoded
    /\ Len(IdatBlocks) > 1
    /\ LET z == IdatData
       IN  SubSeq(z, Len(z) - 3, Len(z)) # <<0, 0, 0, 1>>

\* the uniform fully-opaque black 4 x 4 pixel buffer
Black4x4 == [i \in 1..64 |-> IF i % 4 = 0 THEN 255 ELSE 0]

\* the size of a zlib envelope of stored blocks around a raw stream of r bytes
StoredSize(r) == 2 + 5 * ((r + 65534) \div 65535) + r + 4

\* C10 as amended: the uniform opaque black 4 x 4 buffer decodes to pixels
\* that are all (0,0,0,255) and encodes to 8 + 3 * 12 + 13 + data payload + 0
\* bytes, the data payload being the stored-block formula applied to a raw
\* stream of 4 * (1 + 16) = 68 bytes: 136 bytes in all.
C10_BlackIcon ==
    (Encoded /\ width = 4 /\ height = 4 /\ pixels = Black4x4) =>
        /\ Len(png) = 8 + 3 * 12 + 13 + StoredSize(4 * (1 + 16)) + 0
        /\ Len(png) = 136
        /\ LET out == Unfilter(Payloads(IdatBlocks), 4, 4)
           IN  \A j \in 0..15 :
                  <<out[4 * j + 1], out[4 * j + 2], out[4 * j + 3], out[4 * j + 4]>>
                      = <<0, 0, 0, 255>>

C10_Witness ==
    /\ Encoded /\ width = 4 /\ height = 4 /\ pixels = Black4x4
    /\ Len(png) = 136

\* C10 as stated: the data payload is the stored-block formula applied to a
\* raw stream of 20 bytes.
C10_AsStated ==
    (Encoded /\ width = 4 /\ height = 4 /\ pixels = Black4x4) =>
        Len(png) = 8 + 3 * 12 + 13 + StoredSize(20) + 0

(***************************************************************************)
(* Claims about the frame of mergeGeometries.                              *)
(***************************************************************************)
\* the part p with its translation replaced by t
Moved(p, t) == [geo |-> p.geo, translate |-> t, rotate_y |-> RotateYOf(p), color |-> ColorOf(p)]

\* the translations [0, 0, 0] and [7, -9, 11.5]
OtherTranslations ==
    {<<DoubleOf(0), DoubleOf(0), DoubleOf(0)>>, <<DoubleOf(7), DoubleOf(-9), Literal(115, 10)>>}

\* C11: a Placed Part of rotation angle 0, or of no rotation, has each of its
\* vertices written with position = original position + translation vector
\* (the sum of the two numbers, stored as a 32-bit float) and normal = original
\* normal; for any part the merged normals are those of the same part under
\* any other translation, the y of a position is the original y plus the
\* translation's y, and the y of a normal is the original one.
C11_RotationZero ==
    pc = "merged" =>
        LET ps == UnpackParts(parts)
            m  == UnpackMesh(merged)
        IN  \A k \in 1..Len(ps) :
               LET p   == ps[k]
                   g   == p.geo
                   t   == TranslateOf(p)
                   off == 3 * PackedVertsBefore(parts, k)
                   n   == Len(g.positions)
               IN  /\ RotateYOf(p)[2] = <<>> =>
                          \A j \in 1..n :
                             /\ SameNumber(m.positions[off + j],
                                           Float32Of(DoubleAdd(g.positions[j], t[((j - 1) % 3) + 1])))
                             /\ SameNumber(m.normals[off + j], g.normals[j])
                   /\ \A t2 \in OtherTranslations :
                          SubSeq(m.normals, off + 1, off + n)
                              = mergeGeometries(<<Moved(p, t2)>>).normals
                   /\ \A i \in 0..((n \div 3) - 1) :
                          /\ m.positions[off + 3 * i + 2]
                                = Float32Of(DoubleAdd(g.positions[3 * i + 2], t[2]))
                          /\ m.normals[off + 3 * i + 2] = g.normals[3 * i + 2]

\* an arm of the chandelier, turned by a fifth of a turn, and behind it a box
\* with rotation angle 0 given and moved by (-5, 4, 0): the first vertex
\* (-1, -1, 1) of the box is written as (-6, 3, 1)
C11_Witness ==
    /\ pc = "merged"
    /\ Len(parts) = 2
    /\ "rotate_y" \in DOMAIN parts[1] /\ parts[1].rotate_y = ArmAngle(1)
    /\ "rotate_y" \in DOMAIN parts[2] /\ parts[2].rotate_y = DoubleOf(0)
    /\ parts[2].translate = <<DoubleOf(-5), DoubleOf(4), DoubleOf(0)>>
    /\ ElemCount(parts[2].geo.positions) = 72
    /\ SubSeq(Elems(merged.positions), 73, 75)
          = <<Float32Of(DoubleOf(-6)), Float32Of(DoubleOf(3)), Float32Of(DoubleOf(1))>>
    /\ SubSeq(Elems(merged.normals), 73, 75)
          = <<Float32Of(DoubleOf(0)), Float32Of(DoubleOf(0)), Float32Of(DoubleOf(1))>>

(***************************************************************************)
(* generate-models: Math.cos and Math.sin of cylinderGeometry and          *)
(* sphereGeometry.                                                         *)
(***************************************************************************)
\* a = (i/segs) * Math.PI * 2 and theta = (x/ws) * Math.PI * 2
TurnAngle(i, n) ==
    DoubleMul(DoubleMul(DoubleDiv(DoubleOf(i), DoubleOf(n)), MathPI), DoubleOf(2))

\* phi = (y/hs) * Math.PI
HalfTurnAngle(y, hs) == DoubleMul(DoubleDiv(DoubleOf(y), DoubleOf(hs)), MathPI)

\* the concatenation of rows[lo], ..., rows[hi]
RECURSIVE PushedSpan(_, _, _)
PushedSpan(rows, lo, hi) ==
    IF lo = hi THEN rows[lo]
    ELSE PushedSpan(rows, lo, (lo + hi) \div 2) \o PushedSpan(rows, ((lo + hi) \div 2) + 1, hi)

\* the concatenation of rows[0], rows[1], ..., rows[n - 1], each of w elements
Pushed(n, w, rows) == IF n = 0 THEN <<>> ELSE PushedSpan(rows, 0, n - 1)

\* element i + 1 is <<Math.cos(a), Math.sin(a)>> for the angle a of i = 0 .. n,
\* and for the angle phi of y = 0 .. n
TurnRing(n) == Pushed(n + 1, 1, [i \in 0..n |-> <<CosSin(TurnAngle(i, n))>>])

HalfTurnRing(n) == Pushed(n + 1, 1, [y \in 0..n |-> <<CosSin(HalfTurnAngle(y, n))>>])

\* the same for every segment count up to n
RECURSIVE TurnRingsTo(_)
TurnRingsTo(n) == IF n = 0 THEN <<>> ELSE Append(TurnRingsTo(n - 1), TurnRing(n))

RECURSIVE HalfTurnRingsTo(_)
HalfTurnRingsTo(n) == IF n = 0 THEN <<>> ELSE Append(HalfTurnRingsTo(n - 1), HalfTurnRing(n))

\* the values of Math.cos and Math.sin for the segment counts 1 .. MaxSegs
TurnRings == TurnRingsTo(MaxSegs)

HalfTurnRings == HalfTurnRingsTo(MaxSegs)

RingOf(n) == IF n <= MaxSegs THEN TurnRings[n] ELSE TurnRing(n)

HalfRingOf(n) == IF n <= MaxSegs THEN HalfTurnRings[n] ELSE HalfTurnRing(n)

(***************************************************************************)
(* generate-models: cylinderGeometry and sphereGeometry.  A segment count   *)
(* of 0 is a count left out.                                               *)
(***************************************************************************)
\* the three index loops of cylinderGeometry
CylinderIndices(segs) ==
    LET topCenter == 2 * (segs + 1)
        botCenter == topCenter + 1 + (segs + 1)
        side == [i \in 0..(segs - 1) |->
                    LET a == i * 2
                        b == a + 1
                        c == a + 2
                        d == a + 3
                    IN  <<a, c, b, b, c, d>>]
        top  == [i \in 0..(segs - 1) |-> <<topCenter, topCenter + 1 + i, topCenter + 2 + i>>]
        bot  == [i \in 0..(segs - 1) |-> <<botCenter, botCenter + 2 + i, botCenter + 1 + i>>]
    IN  Pushed(segs, 6, side) \o Pushed(segs, 3, top) \o Pushed(segs, 3, bot)

\* the Geometry of a cylinder of segs segments; ring holds Math.cos(a) and
\* Math.sin(a) of the angles of i = 0 .. segs
CylinderOf(rT, rB, hh, segs, ring) ==
    LET zero == DoubleOf(0)
        one  == DoubleOf(1)
        cos(i) == ring[i + 1][1]
        sin(i) == ring[i + 1][2]
        sidePos == [i \in 0..segs |->
                      <<DoubleMul(rB, cos(i)), DoubleNeg(hh), DoubleMul(rB, sin(i)),
                        DoubleMul(rT, cos(i)), hh, DoubleMul(rT, sin(i))>>]
        sideNor == [i \in 0..segs |-> <<cos(i), zero, sin(i), cos(i), zero, sin(i)>>]
        topPos  == [i \in 0..segs |-> <<DoubleMul(rT, cos(i)), hh, DoubleMul(rT, sin(i))>>]
        topNor  == [i \in 0..segs |-> <<zero, one, zero>>]
        botPos  == [i \in 0..segs |->
                      <<DoubleMul(rB, cos(i)), DoubleNeg(hh), DoubleMul(rB, sin(i))>>]
        botNor  == [i \in 0..segs |-> <<zero, DoubleNeg(one), zero>>]
        positions == Pushed(segs + 1, 6, sidePos)
                        \o <<zero, hh, zero>> \o Pushed(segs + 1, 3, topPos)
                        \o <<zero, DoubleNeg(hh), zero>> \o Pushed(segs + 1, 3, botPos)
        normals   == Pushed(segs + 1, 6, sideNor)
                        \o <<zero, one, zero>> \o Pushed(segs + 1, 3, topNor)
                        \o <<zero, DoubleNeg(one), zero>> \o Pushed(segs + 1, 3, botNor)
    IN  [positions |-> Float32Array(positions),
         normals   |-> Float32Array(normals),
         indices   |-> u16(CylinderIndices(segs))]

CylinderWith(rTop, rBot, h, segs) == CylinderOf(rTop, rBot, DoubleHalf(h), segs, RingOf(segs))

\* segs = segs || 8
cylinderGeometry(rTop, rBot, h, segments) ==
    CylinderWith(rTop, rBot, h, IF segments = 0 THEN 8 ELSE segments)

\* the index loop of sphereGeometry: quad k is that of y = k \div ws, x = k % ws
SphereIndices(ws, hs) ==
    LET quad == [k \in 0..(hs * ws - 1) |->
                    LET y == k \div ws
                        x == k % ws
                        a == y * (ws + 1) + x
                        b == a + ws + 1
                    IN  <<a, b, a + 1, b, b + 1, a + 1>>]
    IN  Pushed(hs * ws, 6, quad)

\* the Geometry of a sphere; thetas holds Math.cos(theta) and Math.sin(theta)
\* of x = 0 .. ws, phis holds Math.cos(phi) and Math.sin(phi) of y = 0 .. hs
SphereOf(rr, ws, hs, thetas, phis) ==
    LET \* vertex k is that of y = k \div (ws + 1), x = k % (ws + 1)
        nor == [k \in 0..((hs + 1) * (ws + 1) - 1) |->
                   LET y  == k \div (ws + 1)
                       x  == k % (ws + 1)
                       nx == DoubleMul(thetas[x + 1][1], phis[y + 1][2])
                       ny == phis[y + 1][1]
                       nz == DoubleMul(thetas[x + 1][2], phis[y + 1][2])
                   IN  <<nx, ny, nz>>]
        pos == [k \in 0..((hs + 1) * (ws + 1) - 1) |->
                   <<DoubleMul(rr, nor[k][1]), DoubleMul(rr, nor[k][2]), DoubleMul(rr, nor[k][3])>>]
    IN  [positions |-> Float32Array(Pushed((hs + 1) * (ws + 1), 3, pos)),
         normals   |-> Float32Array(Pushed((hs + 1) * (ws + 1), 3, nor)),
         indices   |-> u16(SphereIndices(ws, hs))]

SphereWith(r, ws, hs) == SphereOf(r, ws, hs, RingOf(ws), HalfRingOf(hs))

\* ws = ws || 8; hs = hs || 6
sphereGeometry(r, wsegs, hsegs) ==
    SphereWith(r, IF wsegs = 0 THEN 8 ELSE wsegs, IF hsegs = 0 THEN 6 ELSE hsegs)

(***************************************************************************)
(* generate-models: the primitive shapes.  One call of box, cyl or sph:    *)
(*   pc = "shape"    : the arguments are chosen                            *)
(*   pc = "geometry" : the Geometry has been returned                      *)
(***************************************************************************)
\* the dimensions of a box: whole numbers, and 0.02, 0.08 and 0.25
BoxDims ==
    {DoubleOf(k) : k \in 1..MaxSide} \cup {Literal(2, 100), Literal(8, 100), Literal(25, 100)}

BoxShapes == {[kind |-> "box", w |-> a, h |-> b, d |-> c] : a \in BoxDims, b \in BoxDims, c \in BoxDims}

\* segment counts; 0 is a count left out (segs || 8, ws || 8, hs || 6)
SegmentCounts == 0..MaxSegs

\* radii: whole numbers and 0.03; heights: whole numbers and 0.7
Radii == {DoubleOf(k) : k \in 0..MaxRadius} \cup {Literal(3, 100)}

Heights == {DoubleOf(k) : k \in 1..MaxHeight} \cup {Literal(7, 10)}

CylinderShapes ==
    {[kind |-> "cylinder", rTop |-> a, rBot |-> b, h |-> c, segs |-> n] :
        a \in Radii, b \in Radii, c \in Heights, n \in SegmentCounts}

SphereShapes ==
    {[kind |-> "sphere", r |-> a, ws |-> m, hs |-> n] :
        a \in Radii \ {DoubleOf(0)}, m \in SegmentCounts, n \in SegmentCounts}

Shapes == BoxShapes \cup CylinderShapes \cup SphereShapes

\* a cylinder of more vertices than a 16-bit index can address
BigShapes ==
    {[kind |-> "cylinder", rTop |-> DoubleOf(1), rBot |-> DoubleOf(1), h |-> DoubleOf(2),
      segs |-> BigSegs]}

\* the state holds the arrays of a Geometry in pages of PageSize elements
PagesOf(arr, n) ==
    [c \in 1..((n + PageSize - 1) \div PageSize) |->
        SubSeq(arr, (c - 1) * PageSize + 1, IF c * PageSize <= n THEN c * PageSize ELSE n)]

Paged(arr) == PagesOf(arr, Len(arr))

PagedLen(pages) ==
    IF pages = <<>> THEN 0 ELSE (Len(pages) - 1) * PageSize + Len(pages[Len(pages)])

Unpaged(pages) ==
    [j \in 1..PagedLen(pages) |-> pages[((j - 1) \div PageSize) + 1][((j - 1) % PageSize) + 1]]

PageGeometry(g) ==
    [positions |-> Paged(g.positions), normals |-> Paged(g.normals), indices |-> Paged(g.indices)]

UnpageGeometry(g) ==
    [positions |-> Unpaged(g.positions), normals |-> Unpaged(g.normals),
     indices |-> Unpaged(g.indices)]

InitGeoWith(shapes) ==
    /\ pc = "shape"
    /\ shape \in shapes
    /\ geo = <<>>
    /\ parts = <<>> /\ merged = <<>> /\ glb = <<>>
    /\ size = 0 /\ width = 0 /\ height = 0 /\ pixels = <<>> /\ png = <<>>

InitGeo == InitGeoWith(Shapes)

BoxGeometry ==
    /\ pc = "shape"
    /\ shape.kind = "box"
    /\ \E g \in {PageGeometry(boxGeometry(shape.w, shape.h, shape.d))} : geo' = g
    /\ pc' = "geometry"
    /\ UNCHANGED <<shape, parts, merged, glb, size, width, height, pixels, png>>

CylinderGeometry ==
    /\ pc = "shape"
    /\ shape.kind = "cylinder"
    /\ \E g \in {PageGeometry(cylinderGeometry(shape.rTop, shape.rBot, shape.h, shape.segs))} :
          geo' = g
    /\ pc' = "geometry"
    /\ UNCHANGED <<shape, parts, merged, glb, size, width, height, pixels, png>>

SphereGeometry ==
    /\ pc = "shape"
    /\ shape.kind = "sphere"
    /\ \E g \in {PageGeometry(sphereGeometry(shape.r, shape.ws, shape.hs))} : geo' = g
    /\ pc' = "geometry"
    /\ UNCHANGED <<shape, parts, merged, glb, size, width, height, pixels, png>>

NextGeo == BoxGeometry \/ CylinderGeometry \/ SphereGeometry

SpecGeo == InitGeo /\ [][NextGeo]_vars

\* the same calls, and the call of the large cylinder
InitGeoBig == InitGeoWith(Shapes \cup BigShapes)

SpecGeoBig == InitGeoBig /\ [][NextGeo]_vars

(***************************************************************************)
(* Claims about boxGeometry.                                               *)
(***************************************************************************)
\* the Geometry of the state as arrays
Geo == UnpageGeometry(geo)

\* vertex i and normal i of a Geometry (i from 0), and triangle t (t from 0)
VertexOf(g, i) == <<g.positions[3 * i + 1], g.positions[3 * i + 2], g.positions[3 * i + 3]>>

NormalOf(g, i) == <<g.normals[3 * i + 1], g.normals[3 * i + 2], g.normals[3 * i + 3]>>

TriangleOf(g, t) == <<g.indices[3 * t + 1], g.indices[3 * t + 2], g.indices[3 * t + 3]>>

\* sums, products and differences of vectors of numbers, not rounded
ExactMinus3(a, b) == <<ExactSub(a[1], b[1]), ExactSub(a[2], b[2]), ExactSub(a[3], b[3])>>

ExactCross3(a, b) ==
    <<ExactSub(ExactMul(a[2], b[3]), ExactMul(a[3], b[2])),
      ExactSub(ExactMul(a[3], b[1]), ExactMul(a[1], b[3])),
      ExactSub(ExactMul(a[1], b[2]), ExactMul(a[2], b[1]))>>

ExactDot3(a, b) ==
    ExactAdd(ExactAdd(ExactMul(a[1], b[1]), ExactMul(a[2], b[2])), ExactMul(a[3], b[3]))

\* (v1 - v0) x (v2 - v0) of triangle t, exactly
ExactCrossOf(g, t) ==
    LET tr == TriangleOf(g, t)
    IN  ExactCross3(ExactMinus3(VertexOf(g, tr[2]), VertexOf(g, tr[1])),
                    ExactMinus3(VertexOf(g, tr[3]), VertexOf(g, tr[1])))

\* the vector (x, y, z) of integers in a Float32Array
Vector32(x, y, z) == <<Float32Of(DoubleOf(x)), Float32Of(DoubleOf(y)), Float32Of(DoubleOf(z))>>

AxisNormals ==
    {Vector32(1, 0, 0), Vector32(-1, 0, 0), Vector32(0, 1, 0), Vector32(0, -1, 0),
     Vector32(0, 0, 1), Vector32(0, 0, -1)}

\* boxGeometry(a, b, c) has returned, a, b and c integers
IsBox(a, b, c) ==
    /\ pc = "geometry"
    /\ shape = [kind |-> "box", w |-> DoubleOf(a), h |-> DoubleOf(b), d |-> DoubleOf(c)]

\* C12: boxGeometry(2, 2, 2) returns exactly 24 positions, 24 normals and 36
\* indices; every normal is one of the six axis directions, each of the six on
\* exactly 4 vertices, and the coordinate of each vertex along the axis of its
\* normal is the normal's sign times the half-extent 1.
C12_UnitBox ==
    IsBox(2, 2, 2) =>
        /\ Len(Geo.positions) = 3 * 24
        /\ Len(Geo.normals) = 3 * 24
        /\ Len(Geo.indices) = 36
        /\ \A i \in 0..23 : NormalOf(Geo, i) \in AxisNormals
        /\ \A n \in AxisNormals : Cardinality({i \in 0..23 : NormalOf(Geo, i) = n}) = 4
        /\ \A i \in 0..23 : SameNumber(ExactDot3(VertexOf(Geo, i), NormalOf(Geo, i)), DoubleOf(1))

\* the 2 x 2 x 2 box has been returned; its first vertex is (-1, -1, 1) on
\* the face of normal (0, 0, 1)
C12_Witness ==
    /\ IsBox(2, 2, 2)
    /\ VertexOf(Geo, 0) = Vector32(-1, -1, 1)
    /\ NormalOf(Geo, 0) = Vector32(0, 0, 1)

\* the half extents of the box of the state as the Float32Array holds them
HalfExtents ==
    <<Float32Of(DoubleHalf(shape.w)), Float32Of(DoubleHalf(shape.h)),
      Float32Of(DoubleHalf(shape.d))>>

\* the area of the face of normal n of the box of these half extents
FaceArea(n) ==
    CASE SignOf(n[1]) # 0 -> ExactMul(DoubleOf(4), ExactMul(HalfExtents[2], HalfExtents[3]))
      [] SignOf(n[2]) # 0 -> ExactMul(DoubleOf(4), ExactMul(HalfExtents[1], HalfExtents[3]))
      [] OTHER            -> ExactMul(DoubleOf(4), ExactMul(HalfExtents[1], HalfExtents[2]))

\* the number x with the sign s
WithSign(s, x) == <<s, x[2], x[3]>>

\* the four corners of the face of normal n
FaceCorners(n) ==
    {v \in {<<WithSign(sx, HalfExtents[1]), WithSign(sy, HalfExtents[2]),
              WithSign(sz, HalfExtents[3])>> : sx \in {-1, 1}, sy \in {-1, 1}, sz \in {-1, 1}} :
        \A c \in 1..3 : SignOf(n[c]) # 0 => v[c][1] = SignOf(n[c])}

\* the vector c is a positive multiple of the axis direction n
PositiveMultiple(c, n) ==
    /\ SignOf(ExactDot3(c, n)) = 1
    /\ \A k \in 1..3 : SignOf(n[k]) = 0 => SignOf(c[k]) = 0

\* C13: for a box of positive dimensions, each of the 12 triangles uses only
\* the 4 vertices of one face; the two triangles of a face together cover the
\* face's quad (the 4 vertices are the 4 corners of the face, the triangles
\* meet along one diagonal that they traverse in opposite directions, and
\* their areas add up to the area of the face); and the cross product
\* (v1 - v0) x (v2 - v0) of each triangle is a positive multiple of the stored
\* normal of the face.
C13_BoxWinding ==
    (pc = "geometry" /\ shape.kind = "box") =>
        /\ Len(Geo.indices) = 3 * 12
        /\ \A f \in 0..5 :
              LET n  == NormalOf(Geo, 4 * f)
                  t1 == TriangleOf(Geo, 2 * f)
                  t2 == TriangleOf(Geo, 2 * f + 1)
                  c1 == ExactCrossOf(Geo, 2 * f)
                  c2 == ExactCrossOf(Geo, 2 * f + 1)
                  own == (4 * f)..(4 * f + 3)
              IN  /\ \A k \in 1..3 : t1[k] \in own /\ t2[k] \in own
                  /\ n \in AxisNormals
                  /\ \A i \in own : NormalOf(Geo, i) = n
                  /\ {VertexOf(Geo, i) : i \in own} = FaceCorners(n)
                  /\ Cardinality({VertexOf(Geo, i) : i \in own}) = 4
                  /\ {t1[k] : k \in 1..3} \cup {t2[k] : k \in 1..3} = own
                  /\ \E a, b \in own :
                        /\ a # b
                        /\ <<a, b>> \in {<<t1[1], t1[2]>>, <<t1[2], t1[3]>>, <<t1[3], t1[1]>>}
                        /\ <<b, a>> \in {<<t2[1], t2[2]>>, <<t2[2], t2[3]>>, <<t2[3], t2[1]>>}
                  /\ PositiveMultiple(c1, n)
                  /\ PositiveMultiple(c2, n)
                  /\ SameNumber(ExactAdd(ExactDot3(c1, n), ExactDot3(c2, n)),
                                ExactMul(DoubleOf(2), FaceArea(n)))

\* a box of three different dimensions has been returned: the first triangle
\* of its face of normal (1, 0, 0) has the cross product (6, 0, 0)
C13_Witness ==
    /\ IsBox(1, 2, 3)
    /\ NormalOf(Geo, 16) = Vector32(1, 0, 0)
    /\ TriangleOf(Geo, 8) = <<16, 17, 18>>
    /\ SameNumber(ExactCrossOf(Geo, 8)[1], DoubleOf(6))
    /\ SignOf(ExactCrossOf(Geo, 8)[2]) = 0
    /\ SignOf(ExactCrossOf(Geo, 8)[3]) = 0

(***************************************************************************)
(* Claims about cylinderGeometry and sphereGeometry.                       *)
(***************************************************************************)
\* the segment counts in use in the state: a count of 0 is the default
SegsInUse == IF shape.segs = 0 THEN 8 ELSE shape.segs

\* the indices of the triangles t with from <= t < from + n
IndicesOf(g, from, n) == {g.indices[j] : j \in (3 * from + 1)..(3 * (from + n))}

\* the statement of C14 on the Geometry g of the state, of nPos position
\* numbers, nNor normal numbers and nIdx indices; up is (0,1,0), down (0,-1,0)
GeometryShape(g, nPos, nNor, nIdx, up, down) ==
    /\ nNor = nPos
    /\ nPos % 3 = 0
    /\ nIdx % 3 = 0
    /\ \A j \in 1..nIdx : g.indices[j] < nPos \div 3
    /\ shape.kind = "cylinder" =>
          LET segs      == SegsInUse
              topCentre == 2 * (segs + 1)
              botCentre == topCentre + segs + 2
          IN  /\ nPos = 3 * (4 * segs + 6)
              /\ nIdx = 12 * segs
              /\ IndicesOf(g, 0, 2 * segs) \subseteq 0..(2 * (segs + 1) - 1)
              /\ \A i \in topCentre..(topCentre + segs + 1) : NormalOf(g, i) = up
              /\ \A i \in botCentre..(botCentre + segs + 1) : NormalOf(g, i) = down
              /\ IndicesOf(g, 2 * segs, segs) \subseteq topCentre..(topCentre + segs + 1)
              /\ IndicesOf(g, 3 * segs, segs) \subseteq botCentre..(botCentre + segs + 1)

\* C14: every Geometry returned by boxGeometry, cylinderGeometry and
\* sphereGeometry has as many normals as positions, an index count that is a
\* multiple of 3 and every index below the position count; a cylinder of segs
\* segments has 4*segs + 6 vertices and 12*segs indices whatever the radii, its
\* side-wall triangles (the first 2*segs) reference only the 2*(segs+1) ring
\* vertices, and each cap fan (segs triangles) references only its own centre
\* and its own ring of segs+1 vertices, which all carry the normal (0,1,0) at
\* the top and (0,-1,0) at the bottom.  The code stores the indices in a
\* Uint16Array: from 16383 segments on (4*segs + 5 >= 65536) the bottom fan
\* holds indices taken modulo 65536, which are side-wall vertices.
C14_GeometryShape ==
    pc = "geometry" =>
        GeometryShape(Geo, PagedLen(geo.positions), PagedLen(geo.normals), PagedLen(geo.indices),
                      Float32Array(<<DoubleOf(0), DoubleOf(1), DoubleOf(0)>>),
                      Float32Array(<<DoubleOf(0), DoubleOf(-1), DoubleOf(0)>>))

\* the signs of the dot products of the cross product of triangle t with the
\* stored normals of its three vertices; <<0, 0, 0>> for a degenerate triangle
WindingOf(g, t) ==
    LET tr == TriangleOf(g, t)
        c  == ExactCrossOf(g, t)
    IN  IF SignOf(c[1]) = 0 /\ SignOf(c[2]) = 0 /\ SignOf(c[3]) = 0 THEN <<0, 0, 0>>
        ELSE [k \in 1..3 |-> SignOf(ExactDot3(c, NormalOf(g, tr[k])))]

\* a cylinder or a sphere has been returned
IsCurved ==
    /\ pc = "geometry"
    /\ shape.kind \in {"cylinder", "sphere"}

\* C15: for cylinderGeometry and sphereGeometry, the cross product
\* (v1 - v0) x (v2 - v0) of every non-degenerate triangle, its vertices in index
\* order, has a positive dot product with the stored normal of each of its
\* three vertices.  The code winds the triangles the other way: the statement
\* fails for every cylinder and sphere of 2 segments or more.
C15_CurvedWinding ==
    IsCurved =>
        \A t \in 0..((Len(Geo.indices) \div 3) - 1) :
           WindingOf(Geo, t) \in {<<0, 0, 0>>, <<1, 1, 1>>}

\* what the code does: with 2 or more segments around the axis, the three dot
\* products of every non-degenerate triangle are negative
CurvedWindingOfTheCode ==
    (IsCurved /\ (IF shape.kind = "cylinder" THEN SegsInUse
                  ELSE IF shape.ws = 0 THEN 8 ELSE shape.ws) >= 2) =>
        \A t \in 0..((Len(Geo.indices) \div 3) - 1) :
           WindingOf(Geo, t) \in {<<0, 0, 0>>, <<-1, -1, -1>>}
====
